---- MODULE Spec2Model ----
(***************************************************************************)
(* Ephemeral proof-bound capability keys (E-Keys): the usage store, the    *)
(* issuer and the verifier, as state machines.                             *)
(*                                                                         *)
(*   StoreSpec   : InMemoryUsageStore driven directly through consume()    *)
(*   Spec        : issueToken + two concurrent EKeyVerifier.verify callers *)
(*   ExpirySpec  : one caller, advancing clocks, a skewed nowProvider      *)
(*   RequestSpec : one caller, every request method, URL and DPoP proof    *)
(*   MtlsSpec    : one caller, DPoP- and certificate-bound tokens          *)
(*   ServerSpec  : the issuance service, POST /token                       *)
(*   HelperSpec  : two concurrent callers of one DPoPHelper / EKeyClient   *)
(*   FrameSpec   : one caller, tokens with a malformed or empty action     *)
(*   CnfSpec     : one caller, tokens with and without a cnf.jkt claim     *)
(***************************************************************************)
EXTENDS Integers, Sequences, FiniteSets, TLC

VARIABLES
    records,     \* InMemoryUsageStore.records: the Map, as its entries in insertion order
    storeCalls,  \* StoreSpec: per caller, the consume() promise it holds and its outcome
    storeLast,   \* StoreSpec: the most recent consume() call, with the Map before and after
    wall,        \* Date.now() in unix seconds (read by issueToken and by jose)
    skew,        \* nowProvider() - Date.now(): 0 for the default clock
    issued,      \* tokens minted so far: <<[request, response]>>
    calls,       \* per caller, the verify() call in flight and its position
    okCount,     \* per trace, the number of verify() calls that returned a result
    last,        \* the most recent verify() completion: inputs and outcome
    auditEvents, \* the events recorded on the audit sink handed to the verifier
    reply,       \* the most recent POST /token exchange: request and reply
    keyPair,     \* DPoPHelper.keyPair: "" while undefined, else the name of the key
    keysMade,    \* the number of keypairs that generateKeyPair has produced
    helperCalls, \* per caller, the DPoPHelper / EKeyClient call in flight
    helperLast   \* the most recent completion of such a call

serviceVars == <<records, storeCalls, storeLast, wall, skew, issued, calls, okCount, last,
                 auditEvents, reply>>
helperVars == <<keyPair, keysMade, helperCalls, helperLast>>
vars == <<records, storeCalls, storeLast, wall, skew, issued, calls, okCount, last,
          auditEvents, reply, keyPair, keysMade, helperCalls, helperLast>>

----------------------------------------------------------------------------
(* Bounds of the model *)

\* capacity handed to new InMemoryUsageStore(maxEntries); the default is 10_000
MaxEntries == 1
\* clockToleranceSeconds handed to the verifier; the default is 5
ClockTolerance == 2
\* the clock stops advancing here
MaxTime == 4
\* tokens minted in one behaviour (Spec; ExpirySpec and RequestSpec), and the
\* latest time at which ExpirySpec mints one
MaxTokens == 2
MaxTokensSolo == 1
MaxIssueTime == 0
\* no new verify() call once some token has been admitted this often
MaxOk == 3
\* largest limit handed to consume() directly (StoreSpec)
MaxStoreLimit == 2

----------------------------------------------------------------------------
(* InMemoryUsageStore: the Map<string, UsageRecord> *)

\* an entry of the Map: the key and the UsageRecord's fields
MapHas(recs, trace) == \E i \in 1..Len(recs) : recs[i].trace = trace

MapGet(recs, trace) ==
    LET i == CHOOSE j \in 1..Len(recs) : recs[j].trace = trace
    IN  [used |-> recs[i].used, limit |-> recs[i].limit, exp |-> recs[i].exp]

\* Map.set keeps the position of a key that is present and appends a new key
MapSet(recs, trace, rec) ==
    LET entry == [trace |-> trace, used |-> rec.used, limit |-> rec.limit, exp |-> rec.exp]
    IN  IF MapHas(recs, trace)
        THEN [i \in 1..Len(recs) |-> IF recs[i].trace = trace THEN entry ELSE recs[i]]
        ELSE Append(recs, entry)

MapDelete(recs, trace) == SelectSeq(recs, LAMBDA e : e.trace # trace)

\* deletes every entry with now > record.exp
evictExpired(recs, now) == SelectSeq(recs, LAMBDA e : ~(now > e.exp))

\* deletes the first key of the Map's iteration order; a falsy key ('') is kept
trimOldest(recs) ==
    IF Len(recs) = 0 THEN recs
    ELSE IF recs[1].trace = "" THEN recs
    ELSE Tail(recs)

\* consume without the limit check
consumeNoLimit(recs, trace, limit, exp, now) ==
    LET r1 == evictExpired(recs, now)
        record == IF MapHas(r1, trace) THEN MapGet(r1, trace)
                  ELSE [used |-> 0, limit |-> limit, exp |-> exp]
    IN  IF now > record.exp
        THEN [records |-> MapDelete(r1, trace), result |-> "token_expired"]
        ELSE LET r2 == MapSet(r1, trace,
                              [used |-> record.used + 1, limit |-> limit, exp |-> exp])
             IN  [records |-> IF Len(r2) > MaxEntries THEN trimOldest(r2) ELSE r2,
                  result |-> "ok"]

\* consume that writes a new record without testing the expiry first
consumeNoExpiry(recs, trace, limit, exp, now) ==
    LET r1 == evictExpired(recs, now)
        record == IF MapHas(r1, trace) THEN MapGet(r1, trace)
                  ELSE [used |-> 0, limit |-> limit, exp |-> exp]
    IN  IF record.used >= record.limit
        THEN [records |-> r1, result |-> "limit_exhausted"]
        ELSE LET r2 == MapSet(r1, trace,
                              [used |-> record.used + 1, limit |-> limit, exp |-> exp])
             IN  [records |-> IF Len(r2) > MaxEntries THEN trimOldest(r2) ELSE r2,
                  result |-> "ok"]

\* consume that never trims the Map
consumeNoTrim(recs, trace, limit, exp, now) ==
    LET r1 == evictExpired(recs, now)
        record == IF MapHas(r1, trace) THEN MapGet(r1, trace)
                  ELSE [used |-> 0, limit |-> limit, exp |-> exp]
    IN  IF now > record.exp
        THEN [records |-> MapDelete(r1, trace), result |-> "token_expired"]
        ELSE IF record.used >= record.limit
        THEN [records |-> r1, result |-> "limit_exhausted"]
        ELSE [records |-> MapSet(r1, trace,
                                 [used |-> record.used + 1, limit |-> limit, exp |-> exp]),
              result |-> "ok"]

\* InMemoryUsageStore.consume: the Map afterwards and "ok" or the UsageStoreError code.
\* The body has no await: it runs to completion when it is called.
consume(recs, trace, limit, exp, now) ==
    LET r1 == evictExpired(recs, now)
        record == IF MapHas(r1, trace) THEN MapGet(r1, trace)
                  ELSE [used |-> 0, limit |-> limit, exp |-> exp]
    IN  IF now > record.exp
        THEN [records |-> MapDelete(r1, trace), result |-> "token_expired"]
        ELSE IF record.used >= record.limit
        THEN [records |-> r1, result |-> "limit_exhausted"]
        ELSE LET r2 == MapSet(r1, trace,
                              [used |-> record.used + 1, limit |-> limit, exp |-> exp])
             IN  [records |-> IF Len(r2) > MaxEntries THEN trimOldest(r2) ELSE r2,
                  result |-> "ok"]

----------------------------------------------------------------------------
(* StoreSpec: callers of consume() *)

StoreCallers == {"a", "b"}
StoreTraces  == {"t1", "t2"}
StoreLimits  == 1..MaxStoreLimit
StoreTimes   == {0, 1}

NoStoreCall == [st |-> "idle"]
NoStoreLast == [by |-> "", trace |-> "", limit |-> 0, exp |-> 0, now |-> 0,
                before |-> <<>>, result |-> "none"]

\* caller c calls consume(trace, limit, exp, now) and holds the promise
StoreConsume(c) ==
    /\ storeCalls[c].st = "idle"
    /\ \E trace \in StoreTraces, limit \in StoreLimits, exp \in StoreTimes, now \in StoreTimes :
         LET out == consume(records, trace, limit, exp, now)
         IN  /\ records' = out.records
             /\ storeCalls' = [storeCalls EXCEPT ![c] =
                                [st |-> "pending", trace |-> trace,
                                 result |-> out.result]]
             /\ storeLast' = [by |-> c, trace |-> trace, limit |-> limit, exp |-> exp,
                              now |-> now, before |-> records, result |-> out.result]
    /\ UNCHANGED <<wall, skew, issued, calls, okCount, last, auditEvents, reply>>
    /\ UNCHANGED helperVars

\* caller c awaits its promise: resolved, or rejected with the UsageStoreError
StoreSettle(c) ==
    /\ storeCalls[c].st = "pending"
    /\ storeCalls' = [storeCalls EXCEPT ![c] = NoStoreCall]
    /\ UNCHANGED <<records, storeLast, wall, skew, issued, calls, okCount, last, auditEvents, reply>>
    /\ UNCHANGED helperVars

----------------------------------------------------------------------------
(* Strings.  A string that the code slices, joins or compares piecewise is a  *)
(* sequence of chunks: "POST:/payments" is <<"POST", ":", "/payments">>.      *)

\* String.prototype.toUpperCase on one chunk
upperChunk(ch) ==
    CASE ch = "post" -> "POST"
      [] ch = "get"  -> "GET"
      [] ch = "/payments"  -> "/PAYMENTS"
      [] ch = "/Payments"  -> "/PAYMENTS"
      [] ch = "/payments/" -> "/PAYMENTS/"
      [] ch = "/a"   -> "/A"
      [] ch = "b"    -> "B"
      [] OTHER       -> ch

toUpperCase(str) == [i \in 1..Len(str) |-> upperChunk(str[i])]

\* String.prototype.indexOf(':'), as the position of the chunk; 0 stands for -1
indexOfColon(str) ==
    IF \E i \in 1..Len(str) : str[i] = ":"
    THEN CHOOSE i \in 1..Len(str) : str[i] = ":" /\ \A j \in 1..(i - 1) : str[j] # ":"
    ELSE 0

\* new URL(url): the absolute URLs of the model and what the parser gives for them
UrlPayments      == "https://api.example.com/payments"
UrlPaymentsQuery == "https://api.example.com/payments?x=1"
UrlPaymentsCase  == "https://api.example.com/Payments"
UrlPaymentsSlash == "https://api.example.com/payments/"
UrlRelative      == "/payments"
UrlColonPath     == "https://api.example.com/a:b"
UrlPathA         == "https://api.example.com/a"

URL(url) ==
    CASE url = UrlPayments ->
           [ok |-> TRUE, origin |-> "https://api.example.com",
            pathname |-> <<"/payments">>, search |-> ""]
      [] url = UrlPaymentsQuery ->
           [ok |-> TRUE, origin |-> "https://api.example.com",
            pathname |-> <<"/payments">>, search |-> "?x=1"]
      [] url = UrlPaymentsCase ->
           [ok |-> TRUE, origin |-> "https://api.example.com",
            pathname |-> <<"/Payments">>, search |-> ""]
      [] url = UrlPaymentsSlash ->
           [ok |-> TRUE, origin |-> "https://api.example.com",
            pathname |-> <<"/payments/">>, search |-> ""]
      [] url = UrlColonPath ->
           [ok |-> TRUE, origin |-> "https://api.example.com",
            pathname |-> <<"/a", ":", "b">>, search |-> ""]
      [] url = UrlPathA ->
           [ok |-> TRUE, origin |-> "https://api.example.com",
            pathname |-> <<"/a">>, search |-> ""]
      [] url = "https://api.example.com" ->
           [ok |-> TRUE, origin |-> "https://api.example.com",
            pathname |-> <<"/">>, search |-> ""]
      [] url = "https://other.example.com" ->
           [ok |-> TRUE, origin |-> "https://other.example.com",
            pathname |-> <<"/">>, search |-> ""]
      [] OTHER ->
           [ok |-> FALSE, origin |-> "", pathname |-> <<>>, search |-> ""]

----------------------------------------------------------------------------
(* Keys and certificates *)

\* the client keypairs of the model, by name; the public JWK of each
ClientKeys == {"K1", "K2"}

publicJwk(key) ==
    CASE key = "K1" -> [kty |-> "EC", crv |-> "P-256", x |-> "x1", y |-> "y1"]
      [] key = "K2" -> [kty |-> "EC", crv |-> "P-256", x |-> "x2", y |-> "y2"]

\* jose calculateJwkThumbprint(jwk, 'sha256'): a digest of the required members,
\* distinct for distinct keys
calculateJwkThumbprint(jwk) ==
    CASE jwk.x = "x1" /\ jwk.y = "y1" -> <<"sha256-thumb-1">>
      [] jwk.x = "x2" /\ jwk.y = "y2" -> <<"sha256-thumb-2">>
      [] OTHER -> <<"sha256-thumb-other">>

\* an absent jwk member
NoJwk      == [kty |-> "", crv |-> "", x |-> "", y |-> ""]

\* calculateJwkThumbprint switches on kty and throws JOSENotSupported for a jwk
\* whose key type is not one of EC, OKP, RSA and oct (an omitted jwk is not a
\* jwk: issueToken throws before it gets here)
jwkUnsupported(jwk) == jwk # NoJwk /\ jwk.kty \notin {"EC", "OKP", "RSA", "oct"}

\* calculateJwkThumbprint throws JWKInvalid when a member that the key type
\* requires is missing or empty: crv, x and y for EC, crv and x for OKP; the
\* keys of the model carry no e, n or k, which RSA and oct require
jwkInvalid(jwk) ==
    \/ (jwk.kty = "EC" /\ (jwk.crv = "" \/ jwk.x = "" \/ jwk.y = ""))
    \/ (jwk.kty = "OKP" /\ (jwk.crv = "" \/ jwk.x = ""))
    \/ jwk.kty \in {"RSA", "oct"}

\* an EC key that lacks its y coordinate; a key of a type that jose does not know
JwkWithoutY == [kty |-> "EC", crv |-> "P-256", x |-> "x1", y |-> ""]
UnknownJwk == [kty |-> "XYZ", crv |-> "", x |-> "", y |-> ""]

\* certificate fingerprints: str.replace(/:/g, '') and toLowerCase on the chunks
replaceColons(str) == SelectSeq(str, LAMBDA ch : ch # ":")

lowerChunk(ch) ==
    CASE ch = "AB" -> "ab"
      [] ch = "CD" -> "cd"
      [] ch = "EF" -> "ef"
      [] OTHER -> ch

toLowerCase(str) == [i \in 1..Len(str) |-> lowerChunk(str[i])]

\* fingerprint256 of the client certificates of the model, as node reports them
CertOne == <<"AB", ":", "CD">>
CertTwo == <<"AB", ":", "EF">>

\* the issuer's signing key (signingKeyProvider) and a key the issuer does not hold
IssuerKey   == "issuer-key"
AttackerKey == "attacker-key"

\* config.ISSUER_URL, and the options the verifier is constructed with
IssuerUrl        == "http://localhost:4000"
VerifierIssuer   == IssuerUrl
VerifierAudience == "https://api.example.com"

----------------------------------------------------------------------------
(* Issuer *)

\* randomTrace(): 16 random bytes in hex; the n-th mint draws the n-th value
randomTrace(n) ==
    CASE n = 1 -> "trace-01"
      [] n = 2 -> "trace-02"
      [] n = 3 -> "trace-03"
      [] OTHER -> "trace-04"

ActionPostPayments == <<"POST", ":", "/payments">>
ActionGetPayments  == <<"GET", ":", "/payments">>
ActionColonPath    == <<"POST", ":", "/a", ":", "b">>

\* the issuance requests of the model (all pass TokenRequestSchema); ttl 0 stands
\* for an omitted ttl, NoJwk for an omitted jwk and <<>> for an omitted
\* cert_fingerprint
BaseRequest ==
    [sub |-> "agent-1", aud |-> "https://api.example.com", jwk |-> publicJwk("K1"),
     cap |-> [action |-> ActionPostPayments, limit |-> 1], ttl |-> 1, bind |-> "DPoP",
     cert_fingerprint |-> <<>>]

\* Spec: the limit varies
LimitRequests ==
    { [BaseRequest EXCEPT !.ttl = 0],
      [BaseRequest EXCEPT !.cap.limit = 2, !.ttl = 0] }

\* ExpirySpec: the lifetime and the audience vary
ExpiryRequests ==
    { BaseRequest,
      [BaseRequest EXCEPT !.ttl = 0],
      [BaseRequest EXCEPT !.aud = "https://other.example.com"] }

\* RequestSpec: the subject, the bound key and the action vary
BoundRequests ==
    { [BaseRequest EXCEPT !.ttl = 0],
      [BaseRequest EXCEPT !.sub = "agent-2", !.jwk = publicJwk("K2"),
                          !.cap.action = ActionGetPayments, !.ttl = 0] }

\* FrameSpec: a token for POST /payments, and tokens whose cap.action has no
\* separator or is empty (issueToken signs what it is given)
FrameRequests ==
    { BaseRequest,
      [BaseRequest EXCEPT !.cap.action = <<"POST", "/payments">>],
      [BaseRequest EXCEPT !.cap.action = <<>>] }

\* ActionSpec: a token for POST /a:b, and tokens whose cap.action has no
\* separator, no method or no path (issueToken signs what it is given)
ActionRequests ==
    { [BaseRequest EXCEPT !.cap.action = ActionColonPath],
      [BaseRequest EXCEPT !.cap.action = <<"POST", "/payments">>],
      [BaseRequest EXCEPT !.cap.action = <<":", "/payments">>],
      [BaseRequest EXCEPT !.cap.action = <<"POST", ":">>] }

DefaultTtl == 60

NoToken == [header |-> [alg |-> "", typ |-> "", bind |-> ""],
            payload |-> [iss |-> "", sub |-> "", aud |-> "", iat |-> 0, exp |-> 0,
                         cap |-> [action |-> <<>>, limit |-> 0],
                         cnf |-> [jkt |-> <<>>], trace |-> ""],
            sig |-> ""]

\* what issueToken gives when it throws `err`
issueThrows(err) ==
    [err |-> err, token |-> NoToken, expires_at |-> 0, expires_in |-> 0,
     trace |-> "", cnf |-> [jkt |-> <<>>]]

\* the error that issueToken throws before it signs, or "none"
issueError(request) ==
    LET bindMode == IF request.bind = "" THEN "DPoP" ELSE request.bind
    IN  IF bindMode = "DPoP"
        THEN IF request.jwk = NoJwk THEN "Error"
             ELSE IF jwkUnsupported(request.jwk) THEN "JOSENotSupported"
             ELSE IF jwkInvalid(request.jwk) THEN "JWKInvalid"
             ELSE "none"
        ELSE IF bindMode = "mTLS"
        THEN IF request.cert_fingerprint = <<>> THEN "Error" ELSE "none"
        ELSE "Error"

\* cnf.jkt: the thumbprint of the jwk, or the normalized certificate fingerprint
issueJkt(request) ==
    IF request.bind = "mTLS"
    THEN toLowerCase(replaceColons(request.cert_fingerprint))
    ELSE calculateJwkThumbprint(request.jwk)

\* issueToken that signs the subject into the audience claim
issueTokenAudAsSub(request, now, trace) ==
    LET bindMode == IF request.bind = "" THEN "DPoP" ELSE request.bind
        ttl == IF request.ttl = 0 THEN DefaultTtl ELSE request.ttl
        exp == now + ttl
        jkt == issueJkt(request)
        payload == [iss |-> IssuerUrl, sub |-> request.aud, aud |-> request.aud,
                    iat |-> now, exp |-> exp,
                    cap |-> [action |-> request.cap.action, limit |-> request.cap.limit],
                    cnf |-> [jkt |-> jkt], trace |-> trace]
    IN  IF issueError(request) # "none" THEN issueThrows(issueError(request))
        ELSE [err |-> "none",
              token |-> [header |-> [alg |-> "ES256", typ |-> "EKEY", bind |-> bindMode],
                         payload |-> payload, sig |-> IssuerKey],
              expires_at |-> exp, expires_in |-> ttl, trace |-> trace,
              cnf |-> [jkt |-> jkt]]

\* issueToken that takes the ttl for milliseconds
issueTokenTtlMillis(request, now, trace) ==
    LET bindMode == IF request.bind = "" THEN "DPoP" ELSE request.bind
        ttl == IF request.ttl = 0 THEN DefaultTtl ELSE request.ttl
        exp == now + ttl * 1000
        jkt == issueJkt(request)
        payload == [iss |-> IssuerUrl, sub |-> request.sub, aud |-> request.aud,
                    iat |-> now, exp |-> exp,
                    cap |-> [action |-> request.cap.action, limit |-> request.cap.limit],
                    cnf |-> [jkt |-> jkt], trace |-> trace]
    IN  IF issueError(request) # "none" THEN issueThrows(issueError(request))
        ELSE [err |-> "none",
              token |-> [header |-> [alg |-> "ES256", typ |-> "EKEY", bind |-> bindMode],
                         payload |-> payload, sig |-> IssuerKey],
              expires_at |-> exp, expires_in |-> ttl, trace |-> trace,
              cnf |-> [jkt |-> jkt]]

\* issueToken that reports the expiry time as expires_in
issueTokenExpiresInAbsolute(request, now, trace) ==
    LET bindMode == IF request.bind = "" THEN "DPoP" ELSE request.bind
        ttl == IF request.ttl = 0 THEN DefaultTtl ELSE request.ttl
        exp == now + ttl
        jkt == issueJkt(request)
        payload == [iss |-> IssuerUrl, sub |-> request.sub, aud |-> request.aud,
                    iat |-> now, exp |-> exp,
                    cap |-> [action |-> request.cap.action, limit |-> request.cap.limit],
                    cnf |-> [jkt |-> jkt], trace |-> trace]
    IN  IF issueError(request) # "none" THEN issueThrows(issueError(request))
        ELSE [err |-> "none",
              token |-> [header |-> [alg |-> "ES256", typ |-> "EKEY", bind |-> bindMode],
                         payload |-> payload, sig |-> IssuerKey],
              expires_at |-> exp, expires_in |-> exp, trace |-> trace,
              cnf |-> [jkt |-> jkt]]

\* issueToken: the TokenResponse, its token as the header, the payload and the
\* key that signed them; `err` is "none", or the error thrown and nothing is signed
issueToken(request, now, trace) ==
    LET bindMode == IF request.bind = "" THEN "DPoP" ELSE request.bind
        ttl == IF request.ttl = 0 THEN DefaultTtl ELSE request.ttl
        exp == now + ttl
        jkt == issueJkt(request)
        payload == [iss |-> IssuerUrl, sub |-> request.sub, aud |-> request.aud,
                    iat |-> now, exp |-> exp,
                    cap |-> [action |-> request.cap.action, limit |-> request.cap.limit],
                    cnf |-> [jkt |-> jkt], trace |-> trace]
    IN  IF issueError(request) # "none" THEN issueThrows(issueError(request))
        ELSE [err |-> "none",
              token |-> [header |-> [alg |-> "ES256", typ |-> "EKEY", bind |-> bindMode],
                         payload |-> payload, sig |-> IssuerKey],
              expires_at |-> exp, expires_in |-> ttl, trace |-> trace,
              cnf |-> [jkt |-> jkt]]

----------------------------------------------------------------------------
(* Issuance service: TokenRequestSchema, the certificate extractor, POST /token *)

\* a JSON body as the handler receives it.  A number member is <<>> when it is
\* omitted and <<n>> otherwise; a string member is "" (a fingerprint <<>>) when
\* it is omitted; `present` is FALSE for a request without a body.
GoodBody ==
    [present |-> TRUE, sub |-> "agent-1", aud |-> "https://api.example.com",
     jwk |-> publicJwk("K1"), cap |-> [action |-> ActionPostPayments, limit |-> <<1>>],
     ttl |-> <<1>>, bind |-> "DPoP", cert_fingerprint |-> <<>>]

NoBody == [GoodBody EXCEPT !.present = FALSE, !.sub = "", !.aud = "", !.jwk = NoJwk,
                           !.cap = [action |-> <<>>, limit |-> <<>>], !.ttl = <<>>,
                           !.bind = ""]

RsaJwk == [kty |-> "RSA", crv |-> "", x |-> "", y |-> ""]

\* /^[A-Z]+$/ and /\s/ on one chunk, and whether the chunk begins with "/"
isUpperLetters(ch) == ch \in {"POST", "GET"}
hasWhitespace(ch)  == ch \in {"/pay ments", " "}
startsWithSlash(ch) ==
    ch \in {"/", "/payments", "/Payments", "/payments/", "/pay ments", "/a"}

\* /^[A-Z]+:\/[^\s]+$/.test(action)
matchesActionPattern(action) ==
    /\ Len(action) >= 3
    /\ isUpperLetters(action[1])
    /\ action[2] = ":"
    /\ startsWithSlash(action[3])
    /\ action[3] # "/" \/ Len(action) > 3
    /\ \A i \in 3..Len(action) : ~hasWhitespace(action[i])

\* z.coerce.number().int().min(lo).max(hi) on a member that is present
numberInRange(raw, lo, hi) == raw[1] >= lo /\ raw[1] <= hi

\* CapabilitySchema: action by the pattern, limit in 1..10 with the default 1
CapabilitySchema(cap) ==
    /\ matchesActionPattern(cap.action)
    /\ cap.limit = <<>> \/ numberInRange(cap.limit, 1, 10)

\* JwkSchema: kty EC or OKP, crv and x strings, y optional
JwkSchema(jwk) == jwk.kty \in {"EC", "OKP"} /\ jwk.crv # "" /\ jwk.x # ""

\* TokenRequestSchema without the two refinements on the binding
TokenRequestSchemaNoRefine(body) ==
    LET success ==
          /\ body.present
          /\ body.sub # ""
          /\ URL(body.aud).ok
          /\ body.jwk = NoJwk \/ JwkSchema(body.jwk)
          /\ CapabilitySchema(body.cap)
          /\ body.ttl = <<>> \/ numberInRange(body.ttl, 1, 60)
          /\ body.bind \in {"", "DPoP", "mTLS"}
    IN  [success |-> success,
         data |-> IF success
                  THEN [sub |-> body.sub, aud |-> body.aud, jwk |-> body.jwk,
                        cap |-> [action |-> body.cap.action,
                                 limit |-> IF body.cap.limit = <<>> THEN 1
                                           ELSE body.cap.limit[1]],
                        ttl |-> IF body.ttl = <<>> THEN 0 ELSE body.ttl[1],
                        bind |-> IF body.bind = "" THEN "DPoP" ELSE body.bind,
                        cert_fingerprint |-> body.cert_fingerprint]
                  ELSE BaseRequest]

\* TokenRequestSchema with ttl <= 61
TokenRequestSchemaTtlOffByOne(body) ==
    LET success ==
          /\ body.present
          /\ body.sub # ""
          /\ URL(body.aud).ok
          /\ body.jwk = NoJwk \/ JwkSchema(body.jwk)
          /\ CapabilitySchema(body.cap)
          /\ body.ttl = <<>> \/ numberInRange(body.ttl, 1, 61)
          /\ body.bind \in {"", "DPoP", "mTLS"}
          /\ (body.bind \in {"", "DPoP"}) => body.jwk # NoJwk
          /\ body.bind = "mTLS" => body.cert_fingerprint # <<>>
    IN  [success |-> success,
         data |-> IF success
                  THEN [sub |-> body.sub, aud |-> body.aud, jwk |-> body.jwk,
                        cap |-> [action |-> body.cap.action,
                                 limit |-> IF body.cap.limit = <<>> THEN 1
                                           ELSE body.cap.limit[1]],
                        ttl |-> IF body.ttl = <<>> THEN 0 ELSE body.ttl[1],
                        bind |-> IF body.bind = "" THEN "DPoP" ELSE body.bind,
                        cert_fingerprint |-> body.cert_fingerprint]
                  ELSE BaseRequest]

\* TokenRequestSchema.safeParse(body): success, and the parsed data with the
\* defaults filled in (data.ttl 0 when the ttl is omitted).  Without success
\* there is no data; the handler does not read it then.
TokenRequestSchema(body) ==
    LET success ==
          /\ body.present
          /\ body.sub # ""
          /\ URL(body.aud).ok
          /\ body.jwk = NoJwk \/ JwkSchema(body.jwk)
          /\ CapabilitySchema(body.cap)
          /\ body.ttl = <<>> \/ numberInRange(body.ttl, 1, 60)
          /\ body.bind \in {"", "DPoP", "mTLS"}
          /\ (body.bind \in {"", "DPoP"}) => body.jwk # NoJwk
          /\ body.bind = "mTLS" => body.cert_fingerprint # <<>>
    IN  [success |-> success,
         data |-> IF success
                  THEN [sub |-> body.sub, aud |-> body.aud, jwk |-> body.jwk,
                        cap |-> [action |-> body.cap.action,
                                 limit |-> IF body.cap.limit = <<>> THEN 1
                                           ELSE body.cap.limit[1]],
                        ttl |-> IF body.ttl = <<>> THEN 0 ELSE body.ttl[1],
                        bind |-> IF body.bind = "" THEN "DPoP" ELSE body.bind,
                        cert_fingerprint |-> body.cert_fingerprint]
                  ELSE BaseRequest]

\* request.raw.socket: whether the TLS handshake authorized the peer, whether
\* getPeerCertificate() gives a certificate (not null, not {}), its fingerprint256
NoSocket == [authorized |-> FALSE, hasCert |-> FALSE, fingerprint256 |-> <<>>]

\* NodeTlsCertificateExtractor.extract: null, or the certificate's normalized
\* fingerprint (<<>> when the certificate has no fingerprint256)
extract(socket) ==
    IF ~socket.hasCert
    THEN [isNull |-> TRUE, fingerprint |-> <<>>]
    ELSE [isNull |-> FALSE,
          fingerprint |-> toLowerCase(replaceColons(socket.fingerprint256))]

\* ensureClientCertificate: the message of the error thrown, or "none" and the
\* certificate
ensureClientCertificate(socket) ==
    LET cert == extract(socket)
    IN  IF ~socket.authorized
        THEN [err |-> "mTLS connection not authorized", cert |-> cert]
        ELSE IF cert.isNull \/ cert.fingerprint = <<>>
        THEN [err |-> "client certificate fingerprint missing", cert |-> cert]
        ELSE [err |-> "none", cert |-> cert]

\* the handler that keeps a cert_fingerprint that the body brings
postTokenBodyFingerprint(body, socket, now, trace) ==
    LET bindMode == IF body.present /\ body.bind # "" THEN body.bind ELSE "DPoP"
        ensured == ensureClientCertificate(socket)
        withCert == IF bindMode = "mTLS" /\ body.cert_fingerprint = <<>>
                    THEN [body EXCEPT !.cert_fingerprint = ensured.cert.fingerprint]
                    ELSE body
        parsed == TokenRequestSchema(withCert)
        response == issueToken(parsed.data, now, trace)
    IN  IF bindMode = "mTLS" /\ ensured.err # "none"
        THEN [status |-> 401, error |-> ensured.err,
              response |-> issueThrows("none")]
        ELSE IF ~parsed.success
        THEN [status |-> 400, error |-> "invalid_request",
              response |-> issueThrows("none")]
        ELSE IF response.err # "none"
        THEN [status |-> 500, error |-> "server_error",
              response |-> issueThrows("none")]
        ELSE [status |-> 201, error |-> "", response |-> response]

\* the handler with the schema validation ahead of the certificate check
postTokenSchemaFirst(body, socket, now, trace) ==
    LET bindMode == IF body.present /\ body.bind # "" THEN body.bind ELSE "DPoP"
        ensured == ensureClientCertificate(socket)
        withCert == IF bindMode = "mTLS"
                    THEN [body EXCEPT !.cert_fingerprint = ensured.cert.fingerprint]
                    ELSE body
        parsed == TokenRequestSchema(withCert)
        response == issueToken(parsed.data, now, trace)
    IN  IF ~parsed.success
        THEN [status |-> 400, error |-> "invalid_request",
              response |-> issueThrows("none")]
        ELSE IF bindMode = "mTLS" /\ ensured.err # "none"
        THEN [status |-> 401, error |-> ensured.err,
              response |-> issueThrows("none")]
        ELSE IF response.err # "none"
        THEN [status |-> 500, error |-> "server_error",
              response |-> issueThrows("none")]
        ELSE [status |-> 201, error |-> "", response |-> response]

\* the handler of POST /token: the status and the error of the reply, and for 201
\* the TokenResponse sent
postToken(body, socket, now, trace) ==
    LET bindMode == IF body.present /\ body.bind # "" THEN body.bind ELSE "DPoP"
        ensured == ensureClientCertificate(socket)
        withCert == IF bindMode = "mTLS"
                    THEN [body EXCEPT !.cert_fingerprint = ensured.cert.fingerprint]
                    ELSE body
        parsed == TokenRequestSchema(withCert)
        response == issueToken(parsed.data, now, trace)
    IN  IF bindMode = "mTLS" /\ ensured.err # "none"
        THEN [status |-> 401, error |-> ensured.err,
              response |-> issueThrows("none")]
        ELSE IF ~parsed.success
        THEN [status |-> 400, error |-> "invalid_request",
              response |-> issueThrows("none")]
        ELSE IF response.err # "none"
        THEN [status |-> 500, error |-> "server_error",
              response |-> issueThrows("none")]
        ELSE [status |-> 201, error |-> "", response |-> response]

----------------------------------------------------------------------------
(* Verifier: the checks of verify(), in the order of the code *)

\* the parser that splits the action at its last ':' (lastIndexOf)
parseCapabilityActionLastColon(action) ==
    LET separatorIndex ==
          IF \E i \in 1..Len(action) : action[i] = ":"
          THEN CHOOSE i \in 1..Len(action) :
                 action[i] = ":" /\ \A j \in (i + 1)..Len(action) : action[j] # ":"
          ELSE 0
        method == SubSeq(action, 1, separatorIndex - 1)
        path == SubSeq(action, separatorIndex + 1, Len(action))
    IN  IF separatorIndex = 0
        THEN [err |-> "invalid_token", method |-> <<>>, path |-> <<>>]
        ELSE IF method = <<>> \/ path = <<>>
        THEN [err |-> "invalid_token", method |-> <<>>, path |-> <<>>]
        ELSE [err |-> "ok", method |-> toUpperCase(method), path |-> path]

\* parseCapabilityAction: the error code, or the method (uppercased) and the path
parseCapabilityAction(action) ==
    LET separatorIndex == indexOfColon(action)
        method == SubSeq(action, 1, separatorIndex - 1)
        path == SubSeq(action, separatorIndex + 1, Len(action))
    IN  IF separatorIndex = 0
        THEN [err |-> "invalid_token", method |-> <<>>, path |-> <<>>]
        ELSE IF method = <<>> \/ path = <<>>
        THEN [err |-> "invalid_token", method |-> <<>>, path |-> <<>>]
        ELSE [err |-> "ok", method |-> toUpperCase(method), path |-> path]

\* jose jwtVerify(token, publicKey, {issuer, audience, clockTolerance}) with the
\* catch of verify(): the signature, then iss, then aud, then exp against the
\* system clock
jwtVerifyToken(token, now) ==
    IF token.sig # IssuerKey THEN "invalid_token"
    ELSE IF token.payload.iss # VerifierIssuer THEN "invalid_token"
    ELSE IF token.payload.aud # VerifierAudience THEN "invalid_token"
    ELSE IF token.payload.exp <= now - ClockTolerance THEN "expired_token"
    ELSE "ok"

\* the action alignment that compares the paths without regard to case
checkCapabilityFoldCase(action, method, url) ==
    LET parsed == parseCapabilityAction(action)
        requestMethod == toUpperCase(method)
        requestUrl == URL(url)
    IN  IF action = <<>> THEN "invalid_token"
        ELSE IF parsed.err # "ok" THEN parsed.err
        ELSE IF parsed.method # requestMethod THEN "capability_mismatch"
        ELSE IF ~requestUrl.ok THEN "TypeError"
        ELSE IF toUpperCase(parsed.path) # toUpperCase(requestUrl.pathname)
        THEN "capability_mismatch"
        ELSE "ok"

\* verify(), from the cap claim to the path comparison: the code of the error
\* thrown ("TypeError" when new URL throws), or "ok"
checkCapability(action, method, url) ==
    LET parsed == parseCapabilityAction(action)
        requestMethod == toUpperCase(method)
        requestUrl == URL(url)
    IN  IF action = <<>> THEN "invalid_token"
        ELSE IF parsed.err # "ok" THEN parsed.err
        ELSE IF parsed.method # requestMethod THEN "capability_mismatch"
        ELSE IF ~requestUrl.ok THEN "TypeError"
        ELSE IF parsed.path # requestUrl.pathname THEN "capability_mismatch"
        ELSE "ok"

\* the catch around usageStore.consume: the UsageStoreError code as the verifier's
mapUsageError(code) ==
    CASE code = "token_expired"   -> "expired_token"
      [] code = "limit_exhausted" -> "replay_detected"
      [] OTHER -> code

\* importJWK(header.jwk, header.alg) with the alg of the model's proofs, ES256:
\* "ok", or the error that jose throws.  An oct key without k (the keys of the
\* model carry none) is a TypeError; a key type that is unknown, or that ES256
\* does not go with (RSA, OKP), is JOSENotSupported; an EC key goes to
\* crypto.subtle.importKey, which throws a DOMException named DataError when
\* crv, x or y is missing
importJWK(jwk) ==
    IF jwk.kty = "oct" THEN "TypeError"
    ELSE IF jwk.kty = "EC"
    THEN IF jwk.crv = "" \/ jwk.x = "" \/ jwk.y = ""
         THEN "DOMException:DataError" ELSE "ok"
    ELSE "JOSENotSupported"

\* header.typ?.toLowerCase(): the typ values of the model in lower case
typToLowerCase(typ) ==
    CASE typ = "DPoP+JWT" -> "dpop+jwt"
      [] typ = "JWT"      -> "jwt"
      [] OTHER            -> typ

\* verifyDpopProof without the comparison of the thumbprint with cnf.jkt
verifyDpopProofNoJkt(proof, expectedMethod, expectedUrl, expectedTrace, expectedJkt, now) ==
    IF ~proof.compact THEN "TypeError"
    ELSE IF typToLowerCase(proof.typ) # "dpop+jwt" THEN "invalid_proof"
    ELSE IF ~proof.hasJwk THEN "invalid_proof"
    ELSE IF importJWK(proof.jwk) # "ok" THEN importJWK(proof.jwk)
    ELSE IF publicJwk(proof.signer) # proof.jwk THEN "invalid_proof"
    ELSE IF toUpperCase(proof.htm) # expectedMethod THEN "invalid_proof"
    ELSE IF proof.htu # <<expectedUrl.origin>> \o expectedUrl.pathname THEN "invalid_proof"
    ELSE IF proof.nonce = "" \/ proof.nonce # expectedTrace THEN "invalid_proof"
    ELSE IF ~proof.hasIat THEN "invalid_proof"
    ELSE IF (IF now >= proof.iat THEN now - proof.iat ELSE proof.iat - now) > ClockTolerance
    THEN "invalid_proof"
    ELSE IF expectedJkt = <<>> THEN "invalid_token"
    ELSE "ok"

\* verifyDpopProof that does not look for a missing cnf.jkt
verifyDpopProofJktUnchecked(proof, expectedMethod, expectedUrl, expectedTrace, expectedJkt, now) ==
    IF ~proof.compact THEN "TypeError"
    ELSE IF typToLowerCase(proof.typ) # "dpop+jwt" THEN "invalid_proof"
    ELSE IF ~proof.hasJwk THEN "invalid_proof"
    ELSE IF importJWK(proof.jwk) # "ok" THEN importJWK(proof.jwk)
    ELSE IF publicJwk(proof.signer) # proof.jwk THEN "invalid_proof"
    ELSE IF toUpperCase(proof.htm) # expectedMethod THEN "invalid_proof"
    ELSE IF proof.htu # <<expectedUrl.origin>> \o expectedUrl.pathname THEN "invalid_proof"
    ELSE IF proof.nonce = "" \/ proof.nonce # expectedTrace THEN "invalid_proof"
    ELSE IF ~proof.hasIat THEN "invalid_proof"
    ELSE IF (IF now >= proof.iat THEN now - proof.iat ELSE proof.iat - now) > ClockTolerance
    THEN "invalid_proof"
    ELSE IF calculateJwkThumbprint(proof.jwk) # expectedJkt THEN "invalid_proof"
    ELSE "ok"

\* verifyDpopProof without the comparison of the nonce with the trace
verifyDpopProofNoNonce(proof, expectedMethod, expectedUrl, expectedTrace, expectedJkt, now) ==
    IF ~proof.compact THEN "TypeError"
    ELSE IF typToLowerCase(proof.typ) # "dpop+jwt" THEN "invalid_proof"
    ELSE IF ~proof.hasJwk THEN "invalid_proof"
    ELSE IF importJWK(proof.jwk) # "ok" THEN importJWK(proof.jwk)
    ELSE IF publicJwk(proof.signer) # proof.jwk THEN "invalid_proof"
    ELSE IF toUpperCase(proof.htm) # expectedMethod THEN "invalid_proof"
    ELSE IF proof.htu # <<expectedUrl.origin>> \o expectedUrl.pathname THEN "invalid_proof"
    ELSE IF ~proof.hasIat THEN "invalid_proof"
    ELSE IF (IF now >= proof.iat THEN now - proof.iat ELSE proof.iat - now) > ClockTolerance
    THEN "invalid_proof"
    ELSE IF expectedJkt = <<>> THEN "invalid_token"
    ELSE IF calculateJwkThumbprint(proof.jwk) # expectedJkt THEN "invalid_proof"
    ELSE "ok"

\* verifyDpopProof without the comparison of htu with the request's URL
verifyDpopProofNoHtu(proof, expectedMethod, expectedUrl, expectedTrace, expectedJkt, now) ==
    IF ~proof.compact THEN "TypeError"
    ELSE IF typToLowerCase(proof.typ) # "dpop+jwt" THEN "invalid_proof"
    ELSE IF ~proof.hasJwk THEN "invalid_proof"
    ELSE IF importJWK(proof.jwk) # "ok" THEN importJWK(proof.jwk)
    ELSE IF publicJwk(proof.signer) # proof.jwk THEN "invalid_proof"
    ELSE IF toUpperCase(proof.htm) # expectedMethod THEN "invalid_proof"
    ELSE IF proof.nonce = "" \/ proof.nonce # expectedTrace THEN "invalid_proof"
    ELSE IF ~proof.hasIat THEN "invalid_proof"
    ELSE IF (IF now >= proof.iat THEN now - proof.iat ELSE proof.iat - now) > ClockTolerance
    THEN "invalid_proof"
    ELSE IF expectedJkt = <<>> THEN "invalid_token"
    ELSE IF calculateJwkThumbprint(proof.jwk) # expectedJkt THEN "invalid_proof"
    ELSE "ok"

\* verifyDpopProof that rejects an iat at the edge of the window
verifyDpopProofIatStrict(proof, expectedMethod, expectedUrl, expectedTrace, expectedJkt, now) ==
    IF ~proof.compact THEN "TypeError"
    ELSE IF typToLowerCase(proof.typ) # "dpop+jwt" THEN "invalid_proof"
    ELSE IF ~proof.hasJwk THEN "invalid_proof"
    ELSE IF importJWK(proof.jwk) # "ok" THEN importJWK(proof.jwk)
    ELSE IF publicJwk(proof.signer) # proof.jwk THEN "invalid_proof"
    ELSE IF toUpperCase(proof.htm) # expectedMethod THEN "invalid_proof"
    ELSE IF proof.htu # <<expectedUrl.origin>> \o expectedUrl.pathname THEN "invalid_proof"
    ELSE IF proof.nonce = "" \/ proof.nonce # expectedTrace THEN "invalid_proof"
    ELSE IF ~proof.hasIat THEN "invalid_proof"
    ELSE IF (IF now >= proof.iat THEN now - proof.iat ELSE proof.iat - now) >= ClockTolerance
    THEN "invalid_proof"
    ELSE IF expectedJkt = <<>> THEN "invalid_token"
    ELSE IF calculateJwkThumbprint(proof.jwk) # expectedJkt THEN "invalid_proof"
    ELSE "ok"

\* verifyDpopProof: the code of the error thrown ("TypeError" when
\* decodeProtectedHeader throws, the error's name when importJWK throws), or "ok".
\* The proof is a JWS: whether it is in compact form, its header (typ, jwk), its
\* payload (htm, htu, nonce, iat; hasIat is FALSE when iat is absent and
\* Number(iat) is NaN) and the key that signed it; jwtVerify accepts the
\* signature when that key is the embedded jwk.
verifyDpopProof(proof, expectedMethod, expectedUrl, expectedTrace, expectedJkt, now) ==
    IF ~proof.compact THEN "TypeError"
    ELSE IF typToLowerCase(proof.typ) # "dpop+jwt" THEN "invalid_proof"
    ELSE IF ~proof.hasJwk THEN "invalid_proof"
    ELSE IF importJWK(proof.jwk) # "ok" THEN importJWK(proof.jwk)
    ELSE IF publicJwk(proof.signer) # proof.jwk THEN "invalid_proof"
    ELSE IF toUpperCase(proof.htm) # expectedMethod THEN "invalid_proof"
    ELSE IF proof.htu # <<expectedUrl.origin>> \o expectedUrl.pathname THEN "invalid_proof"
    ELSE IF proof.nonce = "" \/ proof.nonce # expectedTrace THEN "invalid_proof"
    ELSE IF ~proof.hasIat THEN "invalid_proof"
    ELSE IF (IF now >= proof.iat THEN now - proof.iat ELSE proof.iat - now) > ClockTolerance
    THEN "invalid_proof"
    ELSE IF expectedJkt = <<>> THEN "invalid_token"
    ELSE IF calculateJwkThumbprint(proof.jwk) # expectedJkt THEN "invalid_proof"
    ELSE "ok"

\* verify() that calls usageStore.consume before it looks at the cap claim
verifyUsageConsumeFirst(recs, payload, method, url, now) ==
    LET capResult == checkCapability(payload.cap.action, method, url)
        out == consume(recs, payload.trace, payload.cap.limit, payload.exp, now)
    IN  [records |-> out.records,
         result  |-> IF capResult # "ok" THEN capResult
                     ELSE IF payload.trace = "" THEN "invalid_token"
                     ELSE mapUsageError(out.result)]

\* verify(), from the cap claim to usageStore.consume: the usage store after
\* it, and the code of the error thrown or "ok".  consume is called only when
\* the capability, the request and the trace have passed.
verifyUsage(recs, payload, method, url, now) ==
    LET capResult == checkCapability(payload.cap.action, method, url)
        out == consume(recs, payload.trace, payload.cap.limit, payload.exp, now)
    IN  [records |-> IF capResult = "ok" /\ payload.trace # "" THEN out.records ELSE recs,
         result  |-> IF capResult # "ok" THEN capResult
                     ELSE IF payload.trace = "" THEN "invalid_token"
                     ELSE mapUsageError(out.result)]

\* the VerificationResult that verify() returns
verificationResult(payload) ==
    [sub |-> payload.sub, aud |-> payload.aud, cap |-> payload.cap, trace |-> payload.trace]

----------------------------------------------------------------------------
(* Verifier state *)

Callers == {"c1", "c2"}
Skews   == {0, ClockTolerance + 2}

\* Spec and ExpirySpec: requests for POST /payments or GET /payments
Methods == {<<"POST">>, <<"GET">>}
Urls    == {UrlPayments}

\* ExpirySpec and RequestSpec: one caller; RequestSpec: requests of every shape
OneCaller  == {"c1"}
NoCerts    == {<<>>}
AllMethods == {<<"POST">>, <<"post">>, <<"GET">>}
AllUrls    == {UrlPayments, UrlPaymentsQuery, UrlPaymentsCase, UrlPaymentsSlash, UrlRelative}

\* nowProvider(): the verifier's clock
vnow == wall + skew

NoCall  == [pc |-> "idle"]
NoProof == [compact |-> FALSE, typ |-> "", hasJwk |-> FALSE, jwk |-> publicJwk("K1"),
            signer |-> "", htm |-> <<>>, htu |-> <<>>, nonce |-> "", hasIat |-> FALSE,
            iat |-> 0]
NoValue == [sub |-> "", aud |-> "", cap |-> [action |-> <<>>, limit |-> 0], trace |-> ""]
NoLast  == [kind |-> "none", caller |-> "", token |-> NoToken, dpopPresent |-> FALSE,
            cert |-> <<>>, late |-> FALSE, stage |-> "", method |-> <<>>, url |-> "",
            proof |-> NoProof, consumeNow |-> 0, now |-> 0, result |-> "",
            value |-> NoValue]

\* the tokens a caller can present: the minted ones, and each of them with the
\* limit raised and signed again with a key that is not the issuer's
IssuedTokens == {issued[i].response.token : i \in 1..Len(issued)}
ForgedTokens == {[t EXCEPT !.payload.cap.limit = 10, !.sig = AttackerKey] : t \in IssuedTokens}
TokenInputs  == IssuedTokens \cup ForgedTokens

\* CnfSpec: a token that the issuer's key has signed without a cnf.jkt claim
UnboundTokens == {[t EXCEPT !.payload.cnf.jkt = <<>>] : t \in IssuedTokens}

TokenIndex(token) ==
    CHOOSE i \in 1..Len(issued) : issued[i].response.trace = token.payload.trace

\* DPoPHelper.createProof / the tests' createDpopProof, by the holder of `key`
createProof(key, method, url, nonce, iat) ==
    [compact |-> TRUE, typ |-> "dpop+jwt", hasJwk |-> TRUE, jwk |-> publicJwk(key),
     signer |-> key,
     htm |-> toUpperCase(method), htu |-> <<URL(url).origin>> \o URL(url).pathname,
     nonce |-> nonce, hasIat |-> TRUE, iat |-> iat]

OtherKey(key) == IF key = "K1" THEN "K2" ELSE "K1"

\* the proofs a caller can attach to a request (method, url) for a token with
\* this trace: proofs made for the request by either client key with an iat
\* around `now`, and such a proof with one member changed (a nonce that is
\* another trace or empty, an htu with the query, the other method, another typ,
\* no jwk, a signature by another key, a string that is not a compact JWS, a jwk
\* of an unknown key type, no iat)
ProofIats(now) ==
    {t \in {now - ClockTolerance - 1, now - ClockTolerance, now,
            now + ClockTolerance, now + ClockTolerance + 1} : t >= 0}

\* Spec: a proof made for the request at `now` by either client key
FreshProofs(method, url, trace, now) ==
    {createProof(k, method, url, trace, now) : k \in ClientKeys}

ProofInputs(method, url, trace, now) ==
    {createProof(k, method, url, trace, iat) : k \in ClientKeys, iat \in ProofIats(now)}
    \cup UNION {
      LET b == createProof(k, method, url, trace, now)
      IN  { [b EXCEPT !.nonce = "trace-00"],
            [b EXCEPT !.nonce = ""],
            [b EXCEPT !.htu = b.htu \o <<"?x=1">>],
            [b EXCEPT !.htm = IF b.htm = <<"POST">> THEN <<"GET">> ELSE <<"POST">>],
            [b EXCEPT !.typ = "jwt"],
            [b EXCEPT !.hasJwk = FALSE],
            [b EXCEPT !.signer = OtherKey(k)],
            [b EXCEPT !.compact = FALSE],
            [b EXCEPT !.jwk = UnknownJwk],
            [b EXCEPT !.hasIat = FALSE] }
      : k \in ClientKeys }

\* Date.now() advances
Tick ==
    /\ wall < MaxTime
    /\ wall' = wall + 1
    /\ UNCHANGED <<records, storeCalls, storeLast, skew, issued, calls, okCount, last, auditEvents, reply>>
    /\ UNCHANGED helperVars

\* issueToken(request), called at `wall`
Issue(requests, maxTokens) ==
    /\ Len(issued) < maxTokens
    /\ \E request \in requests :
         LET response == issueToken(request, wall, randomTrace(Len(issued) + 1))
         IN  /\ response.err = "none"
             /\ issued' = Append(issued, [request |-> request, response |-> response,
                                          at |-> wall])
    /\ okCount' = Append(okCount, 0)
    /\ UNCHANGED <<records, storeCalls, storeLast, wall, skew, calls, last, auditEvents, reply>>
    /\ UNCHANGED helperVars

\* the bodies sent to POST /token: a DPoP request and an mTLS request that pass
\* the schema, each of them with one member changed, every pair of ttl and limit,
\* and no body at all
MtlsBody == [GoodBody EXCEPT !.bind = "mTLS", !.jwk = NoJwk]

BodyActions ==
    { ActionPostPayments, ActionGetPayments,
      <<"POST", ":", "/a", ":", "b">>,
      <<"post", ":", "/payments">>,
      <<"POST", ":", "payments">>,
      <<"POST", "/payments">>,
      <<"POST", ":", "/pay ments">>,
      <<"POST", ":", "/">>,
      <<>> }
BodyNumbers(lo, hi) == {<<>>, <<lo - 1>>, <<lo>>, <<hi>>, <<hi + 1>>}

ServerBodies ==
    {NoBody}
    \cup UNION {
      {[b EXCEPT !.sub = ""], [b EXCEPT !.aud = "not a url"],
       [b EXCEPT !.bind = ""], [b EXCEPT !.bind = "x509"]}
      \cup {[b EXCEPT !.jwk = jwk] :
              jwk \in {NoJwk, publicJwk("K1"), publicJwk("K2"), JwkWithoutY, RsaJwk}}
      \cup {[b EXCEPT !.cap.action = action] : action \in BodyActions}
      \cup {[b EXCEPT !.cert_fingerprint = fp] : fp \in {<<>>, CertTwo}}
      \cup {[b EXCEPT !.ttl = ttl, !.cap.limit = limit] :
              ttl \in BodyNumbers(1, 60), limit \in BodyNumbers(1, 10)}
      : b \in {GoodBody, MtlsBody} }

Sockets ==
    {NoSocket}
    \cup {[authorized |-> a, hasCert |-> TRUE, fingerprint256 |-> fp] :
            a \in BOOLEAN, fp \in {<<>>, CertOne}}

\* POST /token with this body on this connection, handled at `wall`.  The
\* service keeps nothing of a request: the token leaves with the reply.
PostToken(bodies, sockets) ==
    /\ \E body \in bodies, socket \in sockets :
         LET out == postToken(body, socket, wall, randomTrace(1))
         IN  reply' = [kind |-> "token", body |-> body, socket |-> socket,
                       at |-> wall, status |-> out.status, error |-> out.error,
                       response |-> out.response]
    /\ UNCHANGED <<records, storeCalls, storeLast, wall, skew, issued, calls, okCount,
                   last, auditEvents>>
    /\ UNCHANGED helperVars

\* verify(input) is called without a token or without a proof: invalid_request.
\* `cert` is the fingerprint of the client certificate of the connection that the
\* request came on (<<>> without one); VerifyInput has no member for it.
VerifyCallMissing(c, certs) ==
    /\ calls[c].pc = "idle"
    /\ \E token \in TokenInputs \cup {NoToken}, dpopPresent \in BOOLEAN, cert \in certs :
         /\ token = NoToken \/ ~dpopPresent
         /\ last' = [NoLast EXCEPT !.kind = "verify", !.caller = c, !.token = token,
                       !.dpopPresent = dpopPresent, !.cert = cert,
                       !.late = (token \in IssuedTokens
                                 /\ vnow > token.payload.exp + ClockTolerance),
                       !.stage = "presence", !.now = vnow,
                       !.result = "invalid_request"]
    /\ UNCHANGED <<records, storeCalls, storeLast, wall, skew, issued, calls, okCount, auditEvents, reply>>
    /\ UNCHANGED helperVars

\* verify(input) is called with a token and a proof, and awaits jwtVerify
VerifyCallWith(c, certs, tokens) ==
    /\ calls[c].pc = "idle"
    /\ \A i \in 1..Len(okCount) : okCount[i] < MaxOk
    /\ \E token \in tokens, cert \in certs :
         calls' = [calls EXCEPT ![c] =
                     [pc |-> "sig", token |-> token, cert |-> cert,
                      late |-> (token \in IssuedTokens
                                /\ vnow > token.payload.exp + ClockTolerance)]]
    /\ UNCHANGED <<records, storeCalls, storeLast, wall, skew, issued, okCount, last, auditEvents, reply>>
    /\ UNCHANGED helperVars

\* verify(input) with a minted token or a forged one
VerifyCall(c, certs) == VerifyCallWith(c, certs, TokenInputs)

\* jwtVerify settles: the signature and the claims of the token
VerifySig(c) ==
    /\ calls[c].pc = "sig"
    /\ LET result == jwtVerifyToken(calls[c].token, wall)
       IN  IF result = "ok"
           THEN /\ calls' = [calls EXCEPT ![c].pc = "consume"]
                /\ UNCHANGED last
           ELSE /\ calls' = [calls EXCEPT ![c] = NoCall]
                /\ last' = [NoLast EXCEPT !.kind = "verify", !.caller = c,
                              !.token = calls[c].token, !.dpopPresent = TRUE,
                              !.cert = calls[c].cert,
                              !.late = calls[c].late, !.stage = "sig", !.now = vnow,
                              !.result = result]
    /\ UNCHANGED <<records, storeCalls, storeLast, wall, skew, issued, okCount, auditEvents, reply>>
    /\ UNCHANGED helperVars

\* verify() from the cap claim to usageStore.consume.  The request's method and
\* url are read here for the first time, so the model draws them here.
VerifyConsume(c, methods, urls) ==
    /\ calls[c].pc = "consume"
    /\ \E method \in methods, url \in urls :
         LET payload == calls[c].token.payload
             out == verifyUsage(records, payload, method, url, vnow)
             result == out.result
         IN  /\ records' = out.records
             /\ IF result = "ok"
                THEN /\ calls' = [calls EXCEPT ![c] =
                                    [pc |-> "pop", token |-> calls[c].token,
                                     cert |-> calls[c].cert, late |-> calls[c].late,
                                     method |-> method, url |-> url,
                                     consumeNow |-> vnow]]
                     /\ UNCHANGED last
                ELSE /\ calls' = [calls EXCEPT ![c] = NoCall]
                     /\ last' = [NoLast EXCEPT !.kind = "verify", !.caller = c,
                                   !.token = calls[c].token, !.dpopPresent = TRUE,
                                   !.cert = calls[c].cert,
                                   !.late = calls[c].late, !.stage = "consume",
                                   !.method = method, !.url = url,
                                   !.consumeNow = vnow, !.now = vnow,
                                   !.result = result]
    /\ UNCHANGED <<storeCalls, storeLast, wall, skew, issued, okCount, auditEvents, reply>>
    /\ UNCHANGED helperVars

\* verifyDpopProof and the return of verify().  The proof's content is read here
\* for the first time, so the model draws it here.
VerifyPop(c, anyProof) ==
    /\ calls[c].pc = "pop"
    /\ LET payload == calls[c].token.payload
           method == calls[c].method
           url == calls[c].url
       IN  \E proof \in IF anyProof THEN ProofInputs(method, url, payload.trace, vnow)
                                      ELSE FreshProofs(method, url, payload.trace, vnow) :
             LET result == verifyDpopProof(proof, toUpperCase(method), URL(url),
                                           payload.trace, payload.cnf.jkt, vnow)
             IN  /\ last' = [NoLast EXCEPT !.kind = "verify", !.caller = c,
                               !.token = calls[c].token, !.dpopPresent = TRUE,
                               !.cert = calls[c].cert,
                               !.late = calls[c].late, !.stage = "pop",
                               !.method = method, !.url = url, !.proof = proof,
                               !.consumeNow = calls[c].consumeNow,
                               !.now = vnow, !.result = result,
                               !.value = IF result = "ok"
                                         THEN verificationResult(payload) ELSE NoValue]
                 /\ okCount' = IF result = "ok"
                               THEN [okCount EXCEPT ![TokenIndex(calls[c].token)] = @ + 1]
                               ELSE okCount
    /\ calls' = [calls EXCEPT ![c] = NoCall]
    /\ UNCHANGED <<records, storeCalls, storeLast, wall, skew, issued, auditEvents, reply>>
    /\ UNCHANGED helperVars

----------------------------------------------------------------------------
(* The client: DPoPHelper and EKeyClient *)

HelperCallers == {"h1", "h2"}
HelperOps     == {"getOrCreateKeyPair", "computeJkt", "createProof", "requestToken"}

\* generateKeyPair('ES256'): the n-th keypair that it produces
generateKeyPair(n) == IF n = 1 THEN "K1" ELSE "K2"

NoHelperCall == [pc |-> "idle"]
NoReplyBody  == [status |-> 0, error |-> "", response |-> issueThrows("none")]
NoHelperLast == [kind |-> "none", caller |-> "", op |-> "", key |-> "", jkt |-> <<>>,
                 proof |-> NoProof, sent |-> "", reply |-> NoReplyBody, result |-> "",
                 value |-> issueThrows("none"), held |-> ""]

\* what the issuer at issuerUrl answers to the client's POST /token for `key`:
\* the service's answer, and that answer with a 200 or a 500 status, without
\* trace, or with the thumbprint of another key
FetchReplies(key) ==
    LET honest == postToken([GoodBody EXCEPT !.jwk = publicJwk(key)], NoSocket, wall,
                            randomTrace(1))
    IN  { honest,
          [honest EXCEPT !.status = 200],
          [status |-> 500, error |-> "server_error", response |-> issueThrows("none")],
          [honest EXCEPT !.response.trace = ""],
          [honest EXCEPT !.response.cnf.jkt = calculateJwkThumbprint(publicJwk(OtherKey(key)))] }

\* EKeyClient.requestToken once fetch has settled: what it throws, or the
\* response that it returns
requestToken(fetched, jkt) ==
    IF ~(fetched.status >= 200 /\ fetched.status <= 299)
    THEN [result |-> "Token request failed", value |-> issueThrows("none")]
    ELSE IF fetched.response.trace = ""
    THEN [result |-> "Issuer response missing trace", value |-> issueThrows("none")]
    ELSE IF fetched.response.cnf.jkt # jkt
    THEN [result |-> "Issuer response jkt does not match client key",
          value |-> issueThrows("none")]
    ELSE [result |-> "returned", value |-> fetched.response]

\* a call of getOrCreateKeyPair, computeJkt, createProof or requestToken: each
\* of them begins with getOrCreateKeyPair, which reads this.keyPair and, when
\* there is none, awaits generateKeyPair
HelperCall(h) ==
    /\ helperCalls[h].pc = "idle"
    /\ \E op \in HelperOps :
         helperCalls' = [helperCalls EXCEPT ![h] =
                           [pc |-> IF keyPair = "" THEN "generate" ELSE "resume",
                            op |-> op, phase |-> "key", local |-> "", got |-> keyPair,
                            key |-> "", jkt |-> <<>>]]
    /\ UNCHANGED <<keyPair, keysMade, helperLast>>
    /\ UNCHANGED serviceVars

\* generateKeyPair settles with a new keypair; getOrCreateKeyPair awaits exportJWK
HelperGenerate(h) ==
    /\ helperCalls[h].pc = "generate"
    /\ keysMade' = keysMade + 1
    /\ helperCalls' = [helperCalls EXCEPT ![h].pc = "export",
                                          ![h].local = generateKeyPair(keysMade + 1)]
    /\ UNCHANGED <<keyPair, helperLast>>
    /\ UNCHANGED serviceVars

\* exportJWK settles: this.keyPair is assigned and returned
HelperExport(h) ==
    /\ helperCalls[h].pc = "export"
    /\ keyPair' = helperCalls[h].local
    /\ helperCalls' = [helperCalls EXCEPT ![h].pc = "resume",
                                          ![h].got = helperCalls[h].local]
    /\ UNCHANGED <<keysMade, helperLast>>
    /\ UNCHANGED serviceVars

\* getOrCreateKeyPair, computeJkt or createProof returns to its caller
HelperReturn(h) ==
    /\ helperCalls[h].pc = "resume"
    /\ helperCalls[h].op \in {"getOrCreateKeyPair", "computeJkt", "createProof"}
    /\ LET key == helperCalls[h].got
           op == helperCalls[h].op
       IN  helperLast' =
             [NoHelperLast EXCEPT
                !.kind = "helper", !.caller = h, !.op = op, !.key = key,
                !.jkt = IF op = "computeJkt"
                        THEN calculateJwkThumbprint(publicJwk(key)) ELSE <<>>,
                !.proof = IF op = "createProof"
                          THEN createProof(key, <<"POST">>, UrlPayments, randomTrace(1), wall)
                          ELSE NoProof,
                !.result = "returned", !.held = keyPair]
    /\ helperCalls' = [helperCalls EXCEPT ![h] = NoHelperCall]
    /\ UNCHANGED <<keyPair, keysMade>>
    /\ UNCHANGED serviceVars

\* requestToken has its key and calls computeJkt, which reads this.keyPair again
ClientGotKey(h) ==
    /\ helperCalls[h].pc = "resume"
    /\ helperCalls[h].op = "requestToken"
    /\ helperCalls[h].phase = "key"
    /\ helperCalls' = [helperCalls EXCEPT
                         ![h].key = helperCalls[h].got,
                         ![h].phase = "jkt",
                         ![h].got = keyPair,
                         ![h].pc = IF keyPair = "" THEN "generate" ELSE "resume"]
    /\ UNCHANGED <<keyPair, keysMade, helperLast>>
    /\ UNCHANGED serviceVars

\* requestToken has its jkt and posts the request with the jwk of its key
ClientGotJkt(h) ==
    /\ helperCalls[h].pc = "resume"
    /\ helperCalls[h].op = "requestToken"
    /\ helperCalls[h].phase = "jkt"
    /\ helperCalls' = [helperCalls EXCEPT
                         ![h].jkt = calculateJwkThumbprint(publicJwk(helperCalls[h].got)),
                         ![h].pc = "fetch"]
    /\ UNCHANGED <<keyPair, keysMade, helperLast>>
    /\ UNCHANGED serviceVars

\* fetch settles: requestToken checks the answer and returns it or throws
ClientFetched(h) ==
    /\ helperCalls[h].pc = "fetch"
    /\ \E fetched \in FetchReplies(helperCalls[h].key) :
         LET out == requestToken(fetched, helperCalls[h].jkt)
         IN  helperLast' =
               [NoHelperLast EXCEPT
                  !.kind = "client", !.caller = h, !.op = "requestToken",
                  !.key = helperCalls[h].key, !.jkt = helperCalls[h].jkt,
                  !.sent = helperCalls[h].key, !.reply = fetched,
                  !.result = out.result, !.value = out.value, !.held = keyPair]
    /\ helperCalls' = [helperCalls EXCEPT ![h] = NoHelperCall]
    /\ UNCHANGED <<keyPair, keysMade>>
    /\ UNCHANGED serviceVars

NoReply == [kind |-> "none"]

\* a DPoPHelper just constructed, with no call on it
HelperInit ==
    /\ keyPair = ""
    /\ keysMade = 0
    /\ helperCalls = [h \in HelperCallers |-> NoHelperCall]
    /\ helperLast = NoHelperLast

StoreInit ==
    /\ HelperInit
    /\ records = <<>>
    /\ storeCalls = [c \in StoreCallers |-> NoStoreCall]
    /\ storeLast = NoStoreLast

InitStore ==
    /\ StoreInit
    /\ wall = 0
    /\ skew = 0
    /\ issued = <<>>
    /\ calls = [c \in Callers |-> NoCall]
    /\ okCount = <<>>
    /\ last = NoLast
    /\ auditEvents = <<>>
    /\ reply = NoReply

InitVerifier ==
    /\ StoreInit
    /\ issued = <<>>
    /\ calls = [c \in Callers |-> NoCall]
    /\ okCount = <<>>
    /\ last = NoLast
    /\ auditEvents = <<>>
    /\ reply = NoReply

\* Spec: two callers of verify() on one verifier with the default clock, which
\* stands still
Init ==
    /\ InitVerifier
    /\ wall = 0
    /\ skew = 0

Next ==
    \/ Issue(LimitRequests, MaxTokens)
    \/ \E c \in Callers :
         \/ VerifyCallMissing(c, NoCerts)
         \/ VerifyCall(c, NoCerts)
         \/ VerifySig(c)
         \/ VerifyConsume(c, Methods, Urls)
         \/ VerifyPop(c, FALSE)

Spec == Init /\ [][Next]_vars

\* ExpirySpec: one caller, the clock advances, the verifier's clock is the default
\* one or runs ahead of it
InitExpiry ==
    /\ InitVerifier
    /\ wall = 0
    /\ skew \in Skews

NextExpiry ==
    \/ Tick
    \/ (wall <= MaxIssueTime /\ Issue(ExpiryRequests, MaxTokensSolo))
    \/ \E c \in OneCaller :
         \/ VerifyCallMissing(c, NoCerts)
         \/ VerifyCall(c, NoCerts)
         \/ VerifySig(c)
         \/ VerifyConsume(c, Methods, Urls)
         \/ VerifyPop(c, FALSE)

ExpirySpec == InitExpiry /\ [][NextExpiry]_vars

\* RequestSpec: one caller, requests and proofs of every shape, at a time when
\* every iat of ProofIats is a time
InitRequest ==
    /\ InitVerifier
    /\ wall = ClockTolerance + 1
    /\ skew = 0

NextRequest ==
    \/ Issue(BoundRequests, MaxTokensSolo)
    \/ \E c \in OneCaller :
         \/ VerifyCallMissing(c, NoCerts)
         \/ VerifyCall(c, NoCerts)
         \/ VerifySig(c)
         \/ VerifyConsume(c, AllMethods, AllUrls)
         \/ VerifyPop(c, TRUE)

RequestSpec == InitRequest /\ [][NextRequest]_vars

\* ServerSpec: the issuance service; the clock advances past MaxIssueTime
InitServer ==
    /\ InitVerifier
    /\ wall = 0
    /\ skew = 0

NextServer ==
    \/ (wall <= MaxIssueTime /\ Tick)
    \/ PostToken(ServerBodies, Sockets)

ServerSpec == InitServer /\ [][NextServer]_vars

\* MtlsSpec: one caller with a DPoP-bound and a certificate-bound token, on
\* connections with and without a client certificate
MtlsRequests ==
    { [BaseRequest EXCEPT !.ttl = 0],
      [BaseRequest EXCEPT !.ttl = 0, !.bind = "mTLS", !.jwk = NoJwk,
                          !.cert_fingerprint = CertOne] }
Certs == {<<>>, CertOne, CertTwo}

InitMtls ==
    /\ InitVerifier
    /\ wall = 0
    /\ skew = 0

NextMtls ==
    \/ Issue(MtlsRequests, MaxTokensSolo)
    \/ \E c \in OneCaller :
         \/ VerifyCallMissing(c, Certs)
         \/ VerifyCall(c, Certs)
         \/ VerifySig(c)
         \/ VerifyConsume(c, Methods, Urls)
         \/ VerifyPop(c, FALSE)

MtlsSpec == InitMtls /\ [][NextMtls]_vars

\* CnfSpec: one caller of verify() with every proof, for tokens with and
\* without a cnf.jkt claim
InitCnf ==
    /\ InitVerifier
    /\ wall = ClockTolerance + 1
    /\ skew = 0

NextCnf ==
    \/ Issue(BoundRequests, MaxTokensSolo)
    \/ \E c \in OneCaller :
         \/ VerifyCallMissing(c, NoCerts)
         \/ VerifyCallWith(c, NoCerts, TokenInputs \cup UnboundTokens)
         \/ VerifySig(c)
         \/ VerifyConsume(c, Methods, Urls)
         \/ VerifyPop(c, TRUE)

CnfSpec == InitCnf /\ [][NextCnf]_vars

\* FrameSpec: one caller of verify() while the clock advances, with tokens whose
\* action is well-formed, malformed or empty
InitFrame ==
    /\ InitVerifier
    /\ wall = 0
    /\ skew = 0

NextFrame ==
    \/ Tick
    \/ (wall <= MaxIssueTime /\ Issue(FrameRequests, MaxTokensSolo))
    \/ \E c \in OneCaller :
         \/ VerifyCallMissing(c, NoCerts)
         \/ VerifyCall(c, NoCerts)
         \/ VerifySig(c)
         \/ VerifyConsume(c, Methods, Urls)
         \/ VerifyPop(c, FALSE)

FrameSpec == InitFrame /\ [][NextFrame]_vars

\* ActionSpec: the issuance service and one caller of verify(), with actions
\* whose path holds a ':' and actions without a separator, a method or a path
ActionUrls == {UrlColonPath, UrlPathA, UrlPayments}

ActionBodies ==
    { [GoodBody EXCEPT !.cap.action = action] :
        action \in {ActionColonPath, ActionPostPayments, <<"POST", "/payments">>,
                    <<":", "/payments">>, <<"POST", ":">>} }

InitAction ==
    /\ InitVerifier
    /\ wall = 0
    /\ skew = 0

NextAction ==
    \/ PostToken(ActionBodies, {NoSocket})
    \/ Issue(ActionRequests, MaxTokensSolo)
    \/ \E c \in OneCaller :
         \/ VerifyCallMissing(c, NoCerts)
         \/ VerifyCall(c, NoCerts)
         \/ VerifySig(c)
         \/ VerifyConsume(c, Methods, ActionUrls)
         \/ VerifyPop(c, FALSE)

ActionSpec == InitAction /\ [][NextAction]_vars

\* HelperSpec: two callers share one DPoPHelper, directly and through an EKeyClient
InitHelper ==
    /\ InitVerifier
    /\ wall = 0
    /\ skew = 0

NextHelper ==
    \E h \in HelperCallers :
       \/ HelperCall(h)
       \/ HelperGenerate(h)
       \/ HelperExport(h)
       \/ HelperReturn(h)
       \/ ClientGotKey(h)
       \/ ClientGotJkt(h)
       \/ ClientFetched(h)

HelperSpec == InitHelper /\ [][NextHelper]_vars

NextStore == \E c \in StoreCallers : StoreConsume(c) \/ StoreSettle(c)

StoreSpec == InitStore /\ [][NextStore]_vars

----------------------------------------------------------------------------
(* Claims about the usage store, checked under StoreSpec *)

\* the record of the last call's trace before the call, and now
LastHadRecord == MapHas(storeLast.before, storeLast.trace)
LastBefore    == MapGet(storeLast.before, storeLast.trace)
LastHasRecord == MapHas(records, storeLast.trace)
LastAfter     == MapGet(records, storeLast.trace)

\* this step is a consume() call made while the previous call's promise is still
\* pending, with the previous call's arguments, limit 1 and now <= exp, and the
\* previous call found no record for the trace
SecondOfConcurrentPair ==
    /\ storeLast.result # "none"
    /\ storeLast'.before = records
    /\ storeLast'.by # storeLast.by
    /\ storeCalls[storeLast.by].st = "pending"
    /\ storeCalls'[storeLast.by].st = "pending"
    /\ storeCalls[storeLast'.by].st = "idle"
    /\ storeCalls'[storeLast'.by].st = "pending"
    /\ storeLast'.trace = storeLast.trace
    /\ storeLast'.limit = 1 /\ storeLast.limit = 1
    /\ storeLast'.exp = storeLast.exp
    /\ storeLast'.now = storeLast.now
    /\ storeLast.now <= storeLast.exp
    /\ ~MapHas(storeLast.before, storeLast.trace)

\* C2: two concurrent consume calls on one trace with identical arguments, limit 1
\* and now <= exp, on a store without a record for the trace: the first returns ok
\* and the second LimitExhausted, so exactly one of each
C2_OneOkOneExhausted ==
    [][SecondOfConcurrentPair =>
         /\ storeLast.result = "ok"
         /\ storeLast'.result = "limit_exhausted"]_vars

\* both promises pending, the later call refused on the record the earlier one made
C2_Witness ==
    /\ \A c \in StoreCallers : storeCalls[c].st = "pending"
    /\ storeLast.result = "limit_exhausted"
    /\ storeLast.limit = 1
    /\ storeLast.now <= storeLast.exp
    /\ LastHadRecord
    /\ LastBefore = [used |-> 1, limit |-> 1, exp |-> storeLast.exp]

\* C6: a consume call on a trace whose record is live (not expired at the call's
\* now) leaves the record's limit and exp as they were
C6_LimitExpFixed ==
    (/\ storeLast.result # "none"
     /\ LastHadRecord
     /\ ~(storeLast.now > LastBefore.exp)
     /\ LastHasRecord)
    => (LastAfter.limit = LastBefore.limit /\ LastAfter.exp = LastBefore.exp)

\* C7: every stored record has used <= limit
C7_UsedAtMostLimit ==
    \A i \in 1..Len(records) : records[i].used <= records[i].limit

\* C8: a consume call on a trace whose record has now > record.exp evicts the
\* record and returns TokenExpired
C8_ExpiredRecordRejected ==
    (/\ storeLast.result # "none"
     /\ LastHadRecord
     /\ storeLast.now > LastBefore.exp)
    => (storeLast.result = "token_expired" /\ ~LastHasRecord)

\* C9: a consume call on a trace without a record returns TokenExpired and leaves
\* no record when now > exp, and otherwise creates {used: 1, limit, exp} and
\* returns ok
C9_FirstConsume ==
    (storeLast.result # "none" /\ ~LastHadRecord)
    => IF storeLast.now > storeLast.exp
       THEN storeLast.result = "token_expired" /\ ~LastHasRecord
       ELSE /\ storeLast.result = "ok"
            /\ LastHasRecord
            /\ LastAfter = [used |-> 1, limit |-> storeLast.limit, exp |-> storeLast.exp]

\* a first call that came too late, with another trace's record in the store
C9_Witness ==
    /\ storeLast.result = "token_expired"
    /\ ~LastHadRecord
    /\ storeLast.now > storeLast.exp
    /\ ~LastHasRecord
    /\ Len(records) = 1
    /\ records[1].used = 1

----------------------------------------------------------------------------
(* Claims about verify() *)

\* the method and the path that an action METHOD:/path of an issuance request names
ActionMethod(action) == <<action[1]>>
ActionPath(action)   == SubSeq(action, 3, Len(action))

\* the request (method, url) names the action: same method once uppercased, and
\* a URL whose pathname is the action's path, chunk for chunk
RequestMatches(action, method, url) ==
    /\ toUpperCase(method) = ActionMethod(action)
    /\ URL(url).ok
    /\ URL(url).pathname = ActionPath(action)

\* the request differs from the action in the method or in the pathname
RequestMismatches(action, method, url) ==
    \/ toUpperCase(method) # ActionMethod(action)
    \/ (URL(url).ok /\ URL(url).pathname # ActionPath(action))

LastAction == last.token.payload.cap.action
LastIssued == issued[TokenIndex(last.token)]

\* C1: for every minted token, the number of verify calls carrying it that
\* returned a result is at most its cap.limit
C1_AtMostLimit ==
    \A i \in 1..Len(issued) : okCount[i] <= issued[i].request.cap.limit

\* C3: a verify call made with a minted token once the verifier's clock
\* (nowProvider) is past exp + clockTolerance returns ExpiredToken, whatever the
\* other inputs of the call are
C3_AlwaysExpired ==
    (last.kind = "verify" /\ last.late) => last.result = "expired_token"

\* every check of the proof but the thumbprint passes: typ, embedded jwk, signature
\* by the embedded key, htm, htu, nonce, iat
OtherProofChecksPass ==
    /\ last.proof.compact
    /\ last.proof.typ = "dpop+jwt"
    /\ last.proof.hasJwk
    /\ publicJwk(last.proof.signer) = last.proof.jwk
    /\ last.proof.htm = toUpperCase(last.method)
    /\ last.proof.htu = <<URL(last.url).origin>> \o URL(last.url).pathname
    /\ last.proof.nonce = last.token.payload.trace
    /\ last.proof.hasIat
    /\ last.proof.iat - last.now <= ClockTolerance
    /\ last.now - last.proof.iat <= ClockTolerance

\* C4: when a verify call reaches the proof and every other check of the proof
\* passes, it succeeds exactly if the thumbprint of the proof's embedded key is
\* the token's cnf.jkt, and fails with InvalidProof otherwise
C4_ThumbprintDecides ==
    (last.kind = "verify" /\ last.stage = "pop" /\ OtherProofChecksPass)
    => /\ (last.result = "ok")
           <=> (calculateJwkThumbprint(last.proof.jwk) = LastIssued.response.cnf.jkt)
       /\ last.result \in {"ok", "invalid_proof"}

\* a well-formed proof for the request, signed by and carrying the other key
C4_Witness ==
    /\ last.kind = "verify"
    /\ last.stage = "pop"
    /\ OtherProofChecksPass
    /\ last.proof.jwk # LastIssued.request.jwk
    /\ last.result = "invalid_proof"

\* C5: a verify call succeeds only if the request names the token's action, and
\* a call whose token passed the signature and claim checks and whose request
\* differs from the action in method or pathname fails with CapabilityMismatch
C5_ActionAlignment ==
    /\ (last.kind = "verify" /\ last.result = "ok")
       => RequestMatches(LastAction, last.method, last.url)
    /\ (/\ last.kind = "verify"
        /\ last.stage \in {"consume", "pop"}
        /\ RequestMismatches(LastAction, last.method, last.url))
       => last.result = "capability_mismatch"

\* the right method and a path that differs by a trailing slash only
C5_Witness ==
    /\ last.kind = "verify"
    /\ last.stage = "consume"
    /\ toUpperCase(last.method) = ActionMethod(LastAction)
    /\ last.url = UrlPaymentsSlash
    /\ last.result = "capability_mismatch"

\* the proof that the holder of the token's key makes for the request
MatchingProof ==
    /\ OtherProofChecksPass
    /\ last.proof.jwk = LastIssued.request.jwk

\* C10: a verify call that reaches the proof with a matching proof returns a
\* result, and a result carries the sub, aud and cap.action of the issuance
\* request and the trace of the issuer's response
C10_RoundTrip ==
    /\ (last.kind = "verify" /\ last.stage = "pop" /\ MatchingProof)
       => last.result = "ok"
    /\ (last.kind = "verify" /\ last.result = "ok")
       => /\ last.value.sub = LastIssued.request.sub
          /\ last.value.aud = LastIssued.request.aud
          /\ last.value.cap.action = LastIssued.request.cap.action
          /\ last.value.trace = LastIssued.response.trace

\* the token of agent-2 for GET /payments, verified
C10_Witness ==
    /\ last.kind = "verify"
    /\ last.result = "ok"
    /\ last.value.sub = "agent-2"
    /\ last.value.aud = "https://api.example.com"
    /\ last.value.cap.action = ActionGetPayments
    /\ last.value.trace = "trace-01"

----------------------------------------------------------------------------
(* Claims about the audit sink, the certificate binding and the clock tolerance *)

\* the audit outcome that belongs to a result of verify()
AuditOutcome(result) ==
    CASE result = "ok"                  -> "allowed"
      [] result = "replay_detected"     -> "replay_blocked"
      [] result = "expired_token"       -> "expired"
      [] result = "invalid_proof"       -> "invalid_proof"
      [] result = "capability_mismatch" -> "cap_mismatch"
      [] OTHER                          -> "none"

\* the audit sink holds an event with this outcome for this trace
Recorded(outcome, trace) ==
    \E i \in 1..Len(auditEvents) :
        auditEvents[i].outcome = outcome /\ auditEvents[i].trace = trace

\* C11: a verify call that returns a result has recorded an audit event with
\* outcome allowed, the token's sub and its trace
C11_AllowedRecorded ==
    (last.kind = "verify" /\ last.result = "ok")
    => \E i \in 1..Len(auditEvents) :
           /\ auditEvents[i].outcome = "allowed"
           /\ auditEvents[i].sub = last.value.sub
           /\ auditEvents[i].trace = last.value.trace

\* C12: a verify call that fails at the action alignment, at the usage
\* consumption or at the proof with CapabilityMismatch, ReplayDetected,
\* ExpiredToken or InvalidProof has recorded the audit event of that outcome
\* with the token's trace
C12_FailureRecorded ==
    (/\ last.kind = "verify"
     /\ last.stage \in {"consume", "pop"}
     /\ AuditOutcome(last.result) \notin {"allowed", "none"})
    => Recorded(AuditOutcome(last.result), last.token.payload.trace)

\* the fingerprint of the connection's client certificate, normalized
LastFingerprint == toLowerCase(replaceColons(last.cert))

\* C13: a verify call with a minted mTLS-bound token that passed every check
\* before the proof of possession returns a result when the normalized
\* fingerprint of the client certificate is cnf.jkt, and fails with InvalidProof
\* when it is not
C13_MtlsBinding ==
    (/\ last.kind = "verify"
     /\ last.token \in IssuedTokens
     /\ last.token.header.bind = "mTLS"
     /\ last.stage = "pop")
    => IF LastFingerprint = last.token.payload.cnf.jkt
       THEN last.result = "ok"
       ELSE last.result = "invalid_proof"

\* C14: a verify call fails at the presence step with InvalidRequest exactly
\* when it has no token, or its token is DPoP-bound and it has no proof
C14_Presence ==
    last.kind = "verify"
    => ((last.stage = "presence" /\ last.result = "invalid_request")
        <=> \/ last.token = NoToken
            \/ (last.token.header.bind = "DPoP" /\ ~last.dpopPresent))

\* the time at which the call's token was last tested for its expiry
LastTokenTime == IF last.stage = "sig" THEN last.now ELSE last.consumeNow

\* C15: with the default clock, a verify call with a minted token for the
\* verifier's audience, a proof and a request that names the token's action,
\* made before any call with the token has succeeded and tested at a time now
\* with exp < now <= exp + clockTolerance, does not fail with ExpiredToken
C15_ToleranceOnExp ==
    (/\ last.kind = "verify"
     /\ skew = 0
     /\ last.token \in IssuedTokens
     /\ last.token.payload.aud = VerifierAudience
     /\ last.dpopPresent
     /\ last.stage \in {"sig", "consume", "pop"}
     /\ last.stage \in {"consume", "pop"}
          => RequestMatches(LastAction, last.method, last.url)
     /\ okCount[TokenIndex(last.token)] = 0
     /\ last.token.payload.exp < LastTokenTime
     /\ LastTokenTime <= last.token.payload.exp + ClockTolerance)
    => last.result # "expired_token"

\* C16: in a verify call that returns a result, the time read from the
\* verifier's clock for the usage consumption is at most exp + clockTolerance
C16_NeverAdmitsExpired ==
    (last.kind = "verify" /\ last.result = "ok")
    => last.consumeNow <= last.token.payload.exp + ClockTolerance

\* the usage is consumed at exp, and the proof verifies once exp + clockTolerance
\* has passed
C16_Witness ==
    /\ last.kind = "verify"
    /\ last.result = "ok"
    /\ last.consumeNow = last.token.payload.exp
    /\ last.now > last.token.payload.exp + ClockTolerance

----------------------------------------------------------------------------
(* Claims about the issuance service, checked under ServerSpec *)

\* the reply carries a token
ReplyHasToken == reply.response.token # NoToken

\* the ttl and the limit that the body asks for, with the defaults
BodyTtl   == IF reply.body.ttl = <<>> THEN 60 ELSE reply.body.ttl[1]
BodyLimit == IF reply.body.cap.limit = <<>> THEN 1 ELSE reply.body.cap.limit[1]

\* C17: a token minted by POST /token carries iat = the time of the issuance
\* and exp = iat + ttl (60 when the ttl is omitted), with exp > iat and
\* exp - iat <= 60
C17_Lifetime ==
    (reply.kind = "token" /\ ReplyHasToken)
    => LET payload == reply.response.token.payload
       IN  /\ payload.iat = reply.at
           /\ payload.exp = payload.iat + BodyTtl
           /\ payload.exp > payload.iat
           /\ payload.exp - payload.iat <= 60
           /\ reply.response.expires_at = payload.exp

\* a token minted at a time after 0 for a request without a ttl
C17_Witness ==
    /\ reply.kind = "token"
    /\ reply.status = 201
    /\ reply.body.ttl = <<>>
    /\ reply.at > 0
    /\ reply.response.token.payload.iat = reply.at
    /\ reply.response.token.payload.exp = reply.at + 60

\* the actions of the form METHOD:/path among the actions of the model
WellFormedActions ==
    {ActionPostPayments, ActionGetPayments, <<"POST", ":", "/a", ":", "b">>}

\* the body asks for a ttl outside 1..60, a limit outside 1..10 or an action
\* that is not of the form METHOD:/path
OutOfRange ==
    \/ BodyTtl < 1 \/ BodyTtl > 60
    \/ BodyLimit < 1 \/ BodyLimit > 10
    \/ reply.body.cap.action \notin WellFormedActions

\* C18: POST /token answers a request with a ttl outside 1..60, a limit outside
\* 1..10 or a malformed action with an error status and no token; ttl 60 with
\* limit 10 is accepted
C18_RejectsOutOfRange ==
    reply.kind = "token"
    => /\ OutOfRange => (reply.status \in {400, 401} /\ ~ReplyHasToken)
       /\ (/\ reply.body = [GoodBody EXCEPT !.ttl = <<60>>, !.cap.limit = <<10>>]
           => (reply.status = 201 /\ ReplyHasToken))

\* ttl 61 with limit 10 in a request that is otherwise good: 400
C18_Witness ==
    /\ reply.kind = "token"
    /\ reply.body = [GoodBody EXCEPT !.ttl = <<61>>, !.cap.limit = <<10>>]
    /\ reply.status = 400
    /\ ~ReplyHasToken

\* the request asks for the DPoP binding (the default) and has no jwk
DpopWithoutJwk ==
    /\ reply.body.present
    /\ reply.body.bind \in {"", "DPoP"}
    /\ reply.body.jwk = NoJwk

\* the request asks for the mTLS binding and its connection has no client
\* certificate, or one without a fingerprint
MtlsWithoutFingerprint ==
    /\ reply.body.present
    /\ reply.body.bind = "mTLS"
    /\ ~reply.socket.hasCert \/ reply.socket.fingerprint256 = <<>>

\* C19, as stated: such a request fails with the error InvalidBinding and no
\* token is minted
C19_InvalidBinding ==
    (reply.kind = "token" /\ (DpopWithoutJwk \/ MtlsWithoutFingerprint))
    => (reply.error = "InvalidBinding" /\ ~ReplyHasToken)

\* C19, amended: POST /token answers a DPoP request without a jwk with 400 and
\* the error invalid_request, and an mTLS request on a connection without a
\* certificate fingerprint with 401; no token is minted
C19_MissingBindingRejected ==
    reply.kind = "token"
    => /\ DpopWithoutJwk
          => (reply.status = 400 /\ reply.error = "invalid_request" /\ ~ReplyHasToken)
       /\ MtlsWithoutFingerprint => (reply.status = 401 /\ ~ReplyHasToken)

\* a DPoP request that lacks nothing but the jwk
C19_Witness ==
    /\ reply.kind = "token"
    /\ reply.body = [GoodBody EXCEPT !.jwk = NoJwk]
    /\ reply.status = 400
    /\ reply.error = "invalid_request"
    /\ ~ReplyHasToken

\* the connection has an authorized client certificate with a fingerprint
AuthorizedCertificate ==
    /\ reply.socket.authorized
    /\ reply.socket.hasCert
    /\ reply.socket.fingerprint256 # <<>>

\* the body that the schema sees: for bind = mTLS, with the fingerprint of the
\* connection's certificate
ValidatedBody ==
    IF reply.body.present /\ reply.body.bind = "mTLS"
    THEN [reply.body EXCEPT
            !.cert_fingerprint = toLowerCase(replaceColons(reply.socket.fingerprint256))]
    ELSE reply.body

\* C20: POST /token answers 401 when bind = mTLS and the connection has no
\* authorized client certificate with a fingerprint; otherwise 400 with the
\* error invalid_request when the body fails the schema; otherwise 500 when
\* minting throws; otherwise 201 with a token; and a token only with 201
C20_FourStatuses ==
    reply.kind = "token"
    => /\ reply.status =
            IF reply.body.present /\ reply.body.bind = "mTLS" /\ ~AuthorizedCertificate
            THEN 401
            ELSE IF ~TokenRequestSchema(ValidatedBody).success THEN 400
            ELSE IF issueError(TokenRequestSchema(ValidatedBody).data) # "none" THEN 500
            ELSE 201
       /\ reply.status = 400 => reply.error = "invalid_request"
       /\ ReplyHasToken <=> reply.status = 201

\* an mTLS request without a subject on a connection that is not authorized:
\* 401, although the body fails the schema as well
C20_Witness ==
    /\ reply.kind = "token"
    /\ reply.body = [MtlsBody EXCEPT !.sub = ""]
    /\ ~reply.socket.authorized
    /\ reply.status = 401
    /\ ~ReplyHasToken

----------------------------------------------------------------------------
(* Claims C21 to C24: the errors of verify and the members of the proof *)

\* the codes of EKeyVerificationError
VerificationErrorCode ==
    {"invalid_request", "invalid_token", "expired_token", "capability_mismatch",
     "replay_detected", "invalid_proof"}

\* C21: every verify call that fails, whatever its input, fails with an
\* EKeyVerificationError whose code is one of the six kinds
C21_TypedErrors ==
    (last.kind = "verify" /\ last.result # "ok") => last.result \in VerificationErrorCode

\* the proof is a DPoP JWS that the verifier can decode and whose signature
\* verifies with the key it carries
ProofWellFormed ==
    /\ last.proof.compact
    /\ last.proof.typ = "dpop+jwt"
    /\ last.proof.hasJwk
    /\ publicJwk(last.proof.signer) = last.proof.jwk

\* C22: a verify call succeeds only if the nonce of its proof is the trace of
\* its token, and a call that reaches a well-formed proof whose nonce is
\* missing or is another trace fails with InvalidProof
C22_NonceIsTrace ==
    /\ (last.kind = "verify" /\ last.result = "ok")
       => last.proof.nonce = last.token.payload.trace
    /\ (/\ last.kind = "verify"
        /\ last.stage = "pop"
        /\ ProofWellFormed
        /\ last.proof.nonce # last.token.payload.trace)
       => last.result = "invalid_proof"

\* the proof that the holder of the bound key made for the same method and url
\* and for another trace
C22_Witness ==
    /\ last.kind = "verify"
    /\ last.stage = "pop"
    /\ ProofWellFormed
    /\ last.proof.jwk = LastIssued.request.jwk
    /\ last.proof.htm = toUpperCase(last.method)
    /\ last.proof.htu = <<URL(last.url).origin>> \o URL(last.url).pathname
    /\ last.proof.nonce = "trace-00"
    /\ last.proof.iat = last.now
    /\ last.result = "invalid_proof"

\* the request's URL with the query that it carries
HtuWithQuery ==
    <<URL(last.url).origin>> \o URL(last.url).pathname \o <<"?x=1">>

\* C23: a verify call succeeds only if the uppercased htm of its proof is the
\* request's method as the verifier reads it (uppercased) and the htu is the
\* origin and pathname of the request's URL; for a URL with a query, a
\* well-formed proof whose htu carries the query fails with InvalidProof and the
\* matching proof, whose htu stops at the pathname, is accepted
C23_BoundToRequest ==
    /\ (last.kind = "verify" /\ last.result = "ok")
       => /\ toUpperCase(last.proof.htm) = toUpperCase(last.method)
          /\ last.proof.htu = <<URL(last.url).origin>> \o URL(last.url).pathname
    /\ (/\ last.kind = "verify"
        /\ last.stage = "pop"
        /\ last.url = UrlPaymentsQuery
        /\ ProofWellFormed
        /\ last.proof.htu = HtuWithQuery)
       => last.result = "invalid_proof"
    /\ (/\ last.kind = "verify"
        /\ last.stage = "pop"
        /\ last.url = UrlPaymentsQuery
        /\ MatchingProof)
       => last.result = "ok"

\* the request carries a query and so does the htu of the bound key's proof
C23_Witness ==
    /\ last.kind = "verify"
    /\ last.stage = "pop"
    /\ last.url = UrlPaymentsQuery
    /\ ProofWellFormed
    /\ last.proof.jwk = LastIssued.request.jwk
    /\ last.proof.htu = HtuWithQuery
    /\ last.result = "invalid_proof"

\* every check of the proof but those of iat passes, the thumbprint included
ChecksBesideIatPass ==
    /\ ProofWellFormed
    /\ last.proof.htm = toUpperCase(last.method)
    /\ last.proof.htu = <<URL(last.url).origin>> \o URL(last.url).pathname
    /\ last.proof.nonce = last.token.payload.trace
    /\ calculateJwkThumbprint(last.proof.jwk) = last.token.payload.cnf.jkt

\* C24: when every other check passes, the proof is accepted exactly if it has a
\* finite iat within clockTolerance of the verifier's clock, the two edges of
\* the window included, and is rejected with InvalidProof otherwise
C24_IatWindow ==
    (last.kind = "verify" /\ last.stage = "pop" /\ ChecksBesideIatPass)
    => /\ (last.result = "ok")
           <=> (/\ last.proof.hasIat
                /\ last.proof.iat <= last.now + ClockTolerance
                /\ last.proof.iat >= last.now - ClockTolerance)
       /\ last.result \in {"ok", "invalid_proof"}

\* a proof dated clockTolerance ahead of the verifier's clock is accepted
C24_Witness ==
    /\ last.kind = "verify"
    /\ last.stage = "pop"
    /\ ChecksBesideIatPass
    /\ last.proof.hasIat
    /\ last.proof.iat = last.now + ClockTolerance
    /\ last.result = "ok"

----------------------------------------------------------------------------
(* Claims C25 and C26: the client's key *)

\* C25: the key that a call of getOrCreateKeyPair, computeJkt or createProof
\* has used is the key that the helper holds from then on: it is the key
\* returned, the key whose thumbprint computeJkt returned and the key that
\* signed the proof
C25_OneKeyPair ==
    (helperLast.kind = "helper")
    => /\ helperLast.key = keyPair
       /\ helperLast.op = "computeJkt"
            => helperLast.jkt = calculateJwkThumbprint(publicJwk(keyPair))
       /\ helperLast.op = "createProof"
            => helperLast.proof.signer = keyPair

\* C26: requestToken returns the issuer's response only if the status is 2xx,
\* the response has a trace and its cnf.jkt is the thumbprint of the key that
\* the client's helper holds; otherwise it throws and returns no token
C26_ReturnsOnlyBoundToken ==
    (helperLast.kind = "client")
    => /\ helperLast.result = "returned"
            => /\ helperLast.reply.status >= 200
               /\ helperLast.reply.status <= 299
               /\ helperLast.reply.response.trace # ""
               /\ helperLast.reply.response.cnf.jkt
                    = calculateJwkThumbprint(publicJwk(helperLast.held))
               /\ helperLast.value = helperLast.reply.response
       /\ helperLast.result # "returned" => helperLast.value = issueThrows("none")

----------------------------------------------------------------------------
(* Claims C27 to C30: what a verify call and a consume call leave in the store *)

\* a step in which a verify call fails before usageStore.consume is called: for
\* want of a token or a proof, in jwtVerify, or on the cap claim or the request
FailsBeforeConsumption ==
    \/ (last' # last /\ last'.stage = "presence")
    \/ \E c \in Callers :
         /\ calls'[c] = NoCall
         /\ \/ calls[c].pc = "sig"
            \/ /\ calls[c].pc = "consume"
               /\ last'.result \in {"invalid_token", "capability_mismatch", "TypeError"}

\* C27: a verify call that fails before usage consumption leaves the usage
\* store as it was: no record is created, incremented or removed
C27_FailureLeavesStore ==
    [][FailsBeforeConsumption => records' = records]_vars

\* a token admitted once is presented again with another method: the call
\* fails with CapabilityMismatch and the token's record still counts one use
C27_Witness ==
    /\ last.kind = "verify"
    /\ last.stage = "consume"
    /\ last.result = "capability_mismatch"
    /\ MapHas(records, last.token.payload.trace)
    /\ MapGet(records, last.token.payload.trace).used = 1

\* C28: after a verify call has passed usage consumption and failed the proof
\* of possession, the unit that it consumed stays consumed: the store holds the
\* trace's record with at least one use
C28_StaysConsumed ==
    (last.kind = "verify" /\ last.stage = "pop" /\ last.result # "ok")
    => /\ MapHas(records, last.token.payload.trace)
       /\ MapGet(records, last.token.payload.trace).used >= 1

\* the number of results that verify had returned for the token of the latest
\* call before that call returned
AdmittedBefore ==
    okCount[TokenIndex(last.token)] - (IF last.result = "ok" THEN 1 ELSE 0)

\* C29: a verify call for a token that has been admitted cap.limit times and
\* that passes the signature, claim and capability checks returns
\* ReplayDetected, whatever its proof
C29_ReplayFirst ==
    (/\ last.kind = "verify"
     /\ last.stage \in {"consume", "pop"}
     /\ RequestMatches(LastAction, last.method, last.url)
     /\ AdmittedBefore >= last.token.payload.cap.limit)
    => last.result = "replay_detected"

\* C30: once a consume call made with time now has returned, the store holds no
\* record whose exp is less than that now
C30_NoExpiredRecord ==
    (storeLast.result # "none")
    => \A i \in 1..Len(records) : records[i].exp >= storeLast.now

----------------------------------------------------------------------------
(* Claims C31 to C37 *)

\* every check of the proof that precedes the look at cnf.jkt passes
ChecksBeforeJktPass ==
    /\ ProofWellFormed
    /\ last.proof.htm = toUpperCase(last.method)
    /\ last.proof.htu = <<URL(last.url).origin>> \o URL(last.url).pathname
    /\ last.proof.nonce = last.token.payload.trace
    /\ last.proof.hasIat
    /\ last.proof.iat <= last.now + ClockTolerance
    /\ last.proof.iat >= last.now - ClockTolerance

\* C31, as stated: a verify call that reaches the proof with a token without
\* cnf.jkt returns InvalidToken whatever the proof, and with a token that has
\* a cnf.jkt and a proof key of another thumbprint it returns InvalidProof
C31_MissingJktAnyProof ==
    /\ (/\ last.kind = "verify"
        /\ last.stage = "pop"
        /\ last.token.payload.cnf.jkt = <<>>)
       => last.result = "invalid_token"
    /\ (/\ last.kind = "verify"
        /\ last.stage = "pop"
        /\ last.token.payload.cnf.jkt # <<>>
        /\ ProofWellFormed
        /\ calculateJwkThumbprint(last.proof.jwk) # last.token.payload.cnf.jkt)
       => last.result = "invalid_proof"

\* C31, amended: with a token without cnf.jkt, verify returns InvalidToken when
\* the proof passes every check that precedes the thumbprint, and never
\* succeeds; the second half is as stated
C31_MissingJktGoodProof ==
    /\ (/\ last.kind = "verify"
        /\ last.stage = "pop"
        /\ last.token.payload.cnf.jkt = <<>>)
       => /\ last.result # "ok"
          /\ ChecksBeforeJktPass => last.result = "invalid_token"
    /\ (/\ last.kind = "verify"
        /\ last.stage = "pop"
        /\ last.token.payload.cnf.jkt # <<>>
        /\ ProofWellFormed
        /\ calculateJwkThumbprint(last.proof.jwk) # last.token.payload.cnf.jkt)
       => last.result = "invalid_proof"

\* a token without cnf.jkt with a proof that is in order
C31_Witness ==
    /\ last.kind = "verify"
    /\ last.stage = "pop"
    /\ last.token.payload.cnf.jkt = <<>>
    /\ ChecksBeforeJktPass
    /\ last.result = "invalid_token"

\* C32: the response of the issuer agrees with the token that it carries: its
\* trace and cnf.jkt are the token's claims, expires_at is the token's exp, and
\* expires_in is the ttl used, which is exp - iat
C32_ResponseMatchesToken ==
    (reply.kind = "token" /\ ReplyHasToken)
    => LET payload == reply.response.token.payload
       IN  /\ reply.response.trace = payload.trace
           /\ reply.response.cnf.jkt = payload.cnf.jkt
           /\ reply.response.expires_at = payload.exp
           /\ reply.response.expires_in = payload.exp - payload.iat
           /\ reply.response.expires_in = BodyTtl

\* a certificate-bound token minted after time 0 for a request with a ttl
C32_Witness ==
    /\ reply.kind = "token"
    /\ reply.status = 201
    /\ reply.at > 0
    /\ reply.body.bind = "mTLS"
    /\ reply.body.ttl # <<>>
    /\ reply.response.trace # ""
    /\ reply.response.cnf.jkt = reply.response.token.payload.cnf.jkt
    /\ reply.response.expires_in = reply.body.ttl[1]

\* C33: for a request to POST /token with bind = mTLS, a token is minted only
\* on an authorized connection, and its cnf.jkt is the normalized fingerprint
\* of the connection's certificate, whatever cert_fingerprint the body brings
C33_JktFromCertificate ==
    (reply.kind = "token" /\ reply.body.present /\ reply.body.bind = "mTLS")
    => /\ ReplyHasToken
            => /\ reply.socket.authorized
               /\ reply.response.cnf.jkt
                    = toLowerCase(replaceColons(reply.socket.fingerprint256))
               /\ reply.response.token.payload.cnf.jkt = reply.response.cnf.jkt
       /\ ~reply.socket.authorized => (~ReplyHasToken /\ reply.status = 401)

\* the body names the fingerprint of another certificate than the connection's
C33_Witness ==
    /\ reply.kind = "token"
    /\ reply.body.bind = "mTLS"
    /\ reply.body.cert_fingerprint = CertTwo
    /\ reply.socket.authorized
    /\ reply.socket.fingerprint256 = CertOne
    /\ reply.status = 201
    /\ reply.response.cnf.jkt = <<"ab", "cd">>

\* C34: after every consume call the store holds at most maxEntries records
C34_AtMostMaxEntries ==
    Len(records) <= MaxEntries

\* a call for a new trace came to a full store of live records, and the store
\* is no larger afterwards
C34_Witness ==
    /\ storeLast.result = "ok"
    /\ Len(storeLast.before) = MaxEntries
    /\ ~LastHadRecord
    /\ \A i \in 1..Len(storeLast.before) : storeLast.now <= storeLast.before[i].exp
    /\ Len(records) = MaxEntries

\* C35: a consume call on one trace leaves the record of every other trace
\* that is live at the call's now in the store and unchanged
C35_OtherTracesUntouched ==
    (storeLast.result # "none")
    => \A i \in 1..Len(storeLast.before) :
         (/\ storeLast.before[i].trace # storeLast.trace
          /\ storeLast.now <= storeLast.before[i].exp)
         => /\ MapHas(records, storeLast.before[i].trace)
            /\ MapGet(records, storeLast.before[i].trace)
                 = MapGet(storeLast.before, storeLast.before[i].trace)

\* C36: a consume call that returns LimitExhausted leaves the record of its
\* trace in the store as it was, and a later call on that trace at a time
\* that is not past the record's exp (here: at the earliest time) also
\* returns LimitExhausted.  The earlier call is one whose promise a caller
\* still holds; the later call is the latest one, made by another caller.
C36_ExhaustedStays ==
    /\ (storeLast.result = "limit_exhausted")
       => (LastHadRecord /\ LastHasRecord /\ LastAfter = LastBefore)
    /\ \A a \in StoreCallers :
         (/\ storeCalls[a].st = "pending"
          /\ storeCalls[a].result = "limit_exhausted"
          /\ storeLast.by # a
          /\ storeLast.trace = storeCalls[a].trace
          /\ \A t \in StoreTimes : storeLast.now <= t)
         => storeLast.result = "limit_exhausted"

\* the latest verify call got as far as the cap claim with a token whose
\* cap.action is `action`
ReachedCapCheck(action) ==
    /\ last.kind = "verify"
    /\ last.stage \in {"consume", "pop"}
    /\ last.token.payload.cap.action = action

\* C37: cap.action is split at its first ':' only.  POST /token accepts the
\* action POST:/a:b and signs it as it is; verify of a token with that action
\* fails with CapabilityMismatch exactly when the request method is not POST or
\* the request pathname is not the whole remainder /a:b; and verify of a token
\* whose action has no ':', no method or no path fails with InvalidToken.
C37_SplitAtFirstColon ==
    /\ (reply.kind = "token" /\ reply.body.cap.action = ActionColonPath)
       => /\ reply.status = 201
          /\ reply.response.token.payload.cap.action = ActionColonPath
    /\ ReachedCapCheck(ActionColonPath)
       => ((last.result = "capability_mismatch")
           <=> (\/ toUpperCase(last.method) # <<"POST">>
                \/ URL(last.url).pathname # <<"/a", ":", "b">>))
    /\ \A action \in {<<"POST", "/payments">>, <<":", "/payments">>, <<"POST", ":">>} :
         ReachedCapCheck(action)
         => (last.stage = "consume" /\ last.result = "invalid_token")

\* a token for POST:/a:b has been issued by the service, and a token with that
\* action has been verified with success on a POST to /a:b
C37_Witness ==
    /\ reply.kind = "token"
    /\ reply.status = 201
    /\ reply.body.cap.action = ActionColonPath
    /\ ReachedCapCheck(ActionColonPath)
    /\ last.stage = "pop"
    /\ last.result = "ok"
    /\ last.method = <<"POST">>
    /\ last.url = UrlColonPath

====
